---- MODULE Spec2Model ----
(***************************************************************************)
(* A model of the safe_network node runtime (sn_node/src/node.rs): the     *)
(* event loop of Node::run, the dispatcher Node::handle_network_event, the *)
(* tasks it spawns, the storage-challenge prover                           *)
(* Node::respond_x_closest_chunk_proof, and the verifier                   *)
(* Node::storage_challenge with chunk_proof_verify_peer.                   *)
(***************************************************************************)
EXTENDS Integers, Sequences, FiniteSets, TLC

(***************************************************************************)
(* Bounds of the model.                                                    *)
(***************************************************************************)
\* network events the swarm driver sends in one run of Spec
MaxEvents == 2
\* network events the swarm driver sends in one run of SpecPeers
MaxPeerEvents == 7
\* capacity of the NetworkEvent mpsc channel
MaxQueue == 2
\* ticker ticks selected by the loop in one run
MaxTicks == 1
\* record addresses are 0..MaxAddr
MaxAddr == 6
\* challenged keys are 0..MaxKey
MaxKey == 1
\* difficulties are 0..MaxDifficulty
MaxDifficulty == 6
\* records of a type other than Chunk in the store
MaxNonChunk == 1
\* calls on the Network handle that return Err in one run of the prover
MaxErrors == 1
\* peers other than the node itself in the local routing table
MaxPeers == 6
\* answers in a peer's reply to a challenge
MaxAnswers == 2
\* configured initial peers, and the addresses they are drawn from
MaxInitialPeers == 2
\* seconds of delay (between two startup steps, or of a late tick) in one run
MaxDelays == 1
\* DataPayment logs in the receipt of a transaction
MaxLogs == 1
\* verifications of the payment in one run
MaxVerifications == 2
\* changes of the chain view in one run
MaxChainChanges == 2

(***************************************************************************)
(* Program constants.                                                      *)
(***************************************************************************)
\* sn_protocol::CLOSE_GROUP_SIZE, imported at node.rs:30
CLOSE_GROUP_SIZE == 5
\* the ticker periods, in seconds
PERIODIC_REPLICATION_INTERVAL_MAX_S == 180
STORE_CHALLENGE_INTERVAL_MAX_S == 7200
UPTIME_METRICS_UPDATE_INTERVAL == 10
UNRELEVANT_RECORDS_CLEANUP_INTERVAL == 3600

VARIABLES
    receiver,         \* network_event_receiver: the events buffered in the mpsc channel
    senderOpen,       \* the swarm driver still holds the sending half
    arrived,          \* number of events the swarm driver has sent so far
    rt_peers,         \* the swarm driver's routing-table size (peers added minus removed)
    loop_pc,          \* the select loop of Node::run: "running" or "exited"
    peers_connected,  \* the AtomicUsize of Node::run
    events_channel,   \* NodeEventsChannel: the lifecycle events broadcast, in order
    dispatched,       \* the events handle_network_event was called with, in order
    tasks,            \* spawned tasks that have not run to completion
    ticks,            \* number of ticker ticks the loop has selected
    responses,        \* per response channel: the responses sent on it
    io_log,           \* awaited operations performed, with the task that awaited
    feature_local,    \* the build has the "local" feature
    initial_peers,    \* initial_peers of the node, in configured order
    unreachable,      \* the addresses on which network.dial returns Err
    dial_log,         \* per NewListenAddr event: the calls of network.dial, in order
    stored,           \* keys of the records validate_and_store_record has stored
    metrics,          \* record_metrics: marker -> times recorded
    now,              \* the clock, in seconds since Node::run was called
    t_pc,             \* the position of Node::run before and at its loop
    tickers,          \* per ticker: its tokio Interval, or NoTicker before it is created
    delays,           \* seconds of delay so far
    \* one run of respond_x_closest_chunk_proof
    p_store,          \* the local record store: address -> record, or NoRecord
    p_key,            \* key
    p_nonce,          \* nonce
    p_difficulty,     \* difficulty
    p_pc,             \* "idle", "start", "prove" or "done"
    p_addrs,          \* the part of all_chunk_addrs.iter().take(..) not yet visited
    p_results,        \* results
    p_lookups,        \* the local lookups awaited so far, with their outcomes
    p_errors,         \* number of Network calls that returned Err
    \* the Network handle
    replications,     \* calls of try_interval_replication: trigger -> number of calls
    node_issues,      \* record_node_issues: <<peer, issue>> -> times recorded
    \* one run of storage_challenge or of the ChunkProofVerification task
    c_caller,         \* "storage_challenge" or "ChunkProofVerification"
    c_pc,             \* "idle", "closest_peers", "candidates", "for", "request",
                      \* "answers" or "done"
    c_closest,        \* closest_peers
    c_todo,           \* the part of closest_peers the for loop has not visited
    c_candidates,     \* verify_candidates
    c_peer,           \* peer_id of the call of chunk_proof_verify_peer
    c_key,            \* key of the call
    c_nonce,          \* nonce of the call
    c_reply,          \* responses.get(&peer_id) of the call
    c_checked,        \* per answer visited: "not_ok" or the outcome of the local lookup
    c_requests,       \* the requests sent by send_and_get_responses, in order
    \* one run of handle_query
    q_query,          \* query, with the payment_address of the node
    q_calls,          \* the calls made on the Network handle, with their results
    q_response,       \* the QueryResponse returned, or NoResponse before the return
    \* the payment verifier and the chain it reads
    pay_rpc,          \* the RPC endpoint answers ("up") or fails in transport ("down")
    pay_receipt,      \* the receipt of tx_hash on the chain, or NoReceipt
    pay_epoch,        \* number of changes of the chain view so far
    pay_args,         \* quote_hash, reward_addr, amount and expiration verified against
    pay_memo,         \* the outcome memoized for tx_hash, or NoMemo
    pay_log,          \* the verifications made: chain view, memo hit, outcome
    \* PeerAdded handlings that share the counter
    h_pc,             \* per handling: "fetch_add", "load" or "done"
    \* the client's event broadcast and the connection-progress task of the CLI
    b_sent,           \* the ClientEvents broadcast so far, in order
    b_closed,         \* every sender of the broadcast channel has been dropped
    rx_next,          \* rx: the number of events the receiver is past
    rx_pc,            \* the task: "recv" in its loop, "done" after a break
    rx_lagged,        \* number of times rx.recv() returned Lagged
    progress_bar,     \* the message the progress bar shows, and whether it finished
    \* one call of restart_node_service
    r_registry,       \* node_registry.nodes
    r_saved,          \* the nodes of the registry file, as last saved
    r_args,           \* peer_id and retain_peer_id of the call
    r_ops,            \* the service and file operations performed, in order
    r_result          \* "none" before the call returns, then "Ok" or "Err"

dialVars == <<feature_local, initial_peers, unreachable, dial_log>>

tickerVars == <<now, t_pc, tickers, delays>>

loopVars == <<receiver, senderOpen, arrived, rt_peers, loop_pc, peers_connected,
              events_channel, dispatched, tasks, ticks, responses, io_log, dialVars,
              stored, metrics, tickerVars>>

proverVars == <<p_store, p_key, p_nonce, p_difficulty, p_pc, p_addrs, p_results,
                p_lookups, p_errors>>

netVars == <<replications, node_issues>>

challengeVars == <<c_caller, c_pc, c_closest, c_todo, c_candidates, c_peer, c_key,
                   c_nonce, c_reply, c_checked, c_requests>>

queryVars == <<q_query, q_calls, q_response>>

paymentVars == <<pay_rpc, pay_receipt, pay_epoch, pay_args, pay_memo, pay_log>>

handlerVars == <<h_pc>>

progressVars == <<b_sent, b_closed, rx_next, rx_pc, rx_lagged, progress_bar>>

restartVars == <<r_registry, r_saved, r_args, r_ops, r_result>>

\* the state of the programs beside the node
otherVars == <<handlerVars, progressVars, restartVars>>

\* what the event loop and its tasks leave alone
nonLoopVars == <<proverVars, challengeVars, queryVars, paymentVars, otherVars>>

\* what the prover leaves alone
nonProverVars == <<loopVars, netVars, challengeVars, queryVars, paymentVars, otherVars>>

vars == <<loopVars, netVars, proverVars, challengeVars, queryVars, paymentVars,
          otherVars>>

(***************************************************************************)
(* Network events (sn_networking::NetworkEvent as matched in               *)
(* handle_network_event).                                                  *)
(***************************************************************************)
EventTypes ==
    {"PeerAdded", "PeerRemoved", "PeerWithUnsupportedProtocol", "NewListenAddr",
     "ResponseReceived", "KeysToFetchForReplication", "QueryRequestReceived",
     "UnverifiedRecord", "TerminateNode", "FailedToFetchHolders",
     "QuoteVerification", "ChunkProofVerification"}

\* the events of SpecPeers: routing-table changes and a termination request
PeerEventTypes == {"PeerAdded", "PeerRemoved", "TerminateNode"}

\* the events of SpecQuery: queries, and one event that spawns another kind of task
QueryEventTypes == {"QueryRequestReceived", "UnverifiedRecord"}

\* the events of FairSpecReplication: the triggers of replication and its failures
ReplicationEventTypes == {"PeerAdded", "PeerRemoved", "FailedToFetchHolders"}

\* Query variants matched by handle_query
QueryVariants ==
    {"GetStoreCost", "GetRegisterRecord", "GetReplicatedRecord",
     "GetChunkExistenceProof", "CheckNodeInProblem"}

NoQuery == "NoQuery"
NoReason == "NoReason"
Reasons == {"HardDiskWriteError"}

\* format!("{reason:?}"): the Debug rendering of the termination reason
DebugFormat(reason) == <<"Debug", reason>>

\* the lifecycle events of NodeEvent that node.rs broadcasts
NodeEvent(name, payload, cause, count) ==
    [event |-> name, payload |-> payload, cause |-> cause, count |-> count]

NoTask == "none"

\* the record of an UnverifiedRecord event: its key and what validation finds
PutRecord(key, verdict) == [key |-> key, verdict |-> verdict]
NoPut == PutRecord(0, "none")
\* the ways validate_and_store_record fails
PutErrors == {"PaymentInvalid", "InvalidRecord"}
ValidPuts == {PutRecord(k, "Ok") : k \in 0..MaxKey}
InvalidPuts == {PutRecord(k, err) : k \in 0..MaxKey, err \in PutErrors}

\* a NetworkEvent as it travels through the channel; seq is its arrival number,
\* which also names the response channel a QueryRequestReceived carries
NetworkEvent(t, seq, count, query, reason, bad_nodes, record) ==
    [type |-> t, seq |-> seq, count |-> count, query |-> query, reason |-> reason,
     bad_nodes |-> bad_nodes, record |-> record]

(***************************************************************************)
(* The swarm driver (environment): sends events while it holds the sender. *)
(***************************************************************************)
\* the routing-table size after an event of type t
RoutingTableAfter(t) ==
    CASE t = "PeerAdded" -> rt_peers + 1
      [] t = "PeerRemoved" -> rt_peers - 1
      [] OTHER -> rt_peers

\* connected_peers, the count a PeerAdded / PeerRemoved event carries
CarriedCount(t) ==
    IF t \in {"PeerAdded", "PeerRemoved"} THEN RoutingTableAfter(t) ELSE 0

Send(types, queries, holders, records, max) ==
    /\ senderOpen
    /\ arrived < max
    /\ Len(receiver) < MaxQueue
    /\ \E t \in types :
         /\ t = "PeerRemoved" => rt_peers > 0
         /\ \E q \in (IF t = "QueryRequestReceived" THEN queries ELSE {NoQuery}),
               r \in (IF t = "TerminateNode" THEN Reasons ELSE {NoReason}),
               b \in (IF t = "FailedToFetchHolders" THEN holders ELSE {<<>>}),
               u \in (IF t = "UnverifiedRecord" THEN records ELSE {NoPut}) :
              receiver' = Append(receiver,
                                 NetworkEvent(t, arrived + 1, CarriedCount(t), q, r, b, u))
         /\ rt_peers' = RoutingTableAfter(t)
    /\ arrived' = arrived + 1
    /\ UNCHANGED <<senderOpen, loop_pc, peers_connected, events_channel, dispatched,
                   tasks, ticks, responses, io_log>>
    /\ UNCHANGED <<netVars, dialVars, stored, metrics, tickerVars, nonLoopVars>>

\* every kind of event; the query variants are told apart in FairSpecQuery
SendEvent ==
    Send(EventTypes, {"GetChunkExistenceProof"}, {<<1, 2>>}, {PutRecord(0, "Ok")}, MaxEvents)

SendPeerEvent == Send(PeerEventTypes, {}, {}, {}, MaxPeerEvents)

SendQueryEvent ==
    Send(QueryEventTypes, QueryVariants, {}, {PutRecord(0, "Ok")}, MaxEvents)

\* the lists of peers a FailedToFetchHolders event may name
BadNodeLists == {<<>>, <<1>>, <<2>>, <<1, 2>>, <<2, 3>>, <<3, 3>>}

SendReplicationEvent == Send(ReplicationEventTypes, {}, BadNodeLists, {}, MaxEvents)

\* the swarm driver ends and drops the sender
CloseChannel ==
    /\ senderOpen
    /\ senderOpen' = FALSE
    /\ UNCHANGED <<receiver, arrived, rt_peers, loop_pc, peers_connected, events_channel,
                   dispatched, tasks, ticks, responses, io_log>>
    /\ UNCHANGED <<netVars, dialVars, stored, metrics, tickerVars, nonLoopVars>>

(***************************************************************************)
(* Node::handle_network_event                                              *)
(***************************************************************************)
\* peers_connected.fetch_add(1, SeqCst): the value stored
fetch_add_none(c) == c
fetch_add(c) == c + 1

\* peers_connected.load(SeqCst) == CLOSE_GROUP_SIZE
ReachedCloseGroup_atLeast(c) == c >= CLOSE_GROUP_SIZE
ReachedCloseGroup(c) == c = CLOSE_GROUP_SIZE

\* the counter after the event: only the PeerAdded arm touches it
CountPeerRemoved(e, c) ==
    CASE e.type = "PeerAdded" -> fetch_add(c)
      [] e.type = "PeerRemoved" /\ c > 0 -> c - 1
      [] OTHER -> c
PeersConnectedAfter(e, c) ==
    IF e.type = "PeerAdded" THEN fetch_add(c) ELSE c

\* the lifecycle events the arm of e broadcasts, given the counter after the event
Broadcasts(e, c) ==
    CASE e.type = "PeerAdded" /\ ReachedCloseGroup(c) ->
             <<NodeEvent("ConnectedToNetwork", <<>>, e.seq, e.count)>>
      [] e.type = "TerminateNode" ->
             <<NodeEvent("TerminateNode", DebugFormat(e.reason), e.seq, e.count)>>
      [] OTHER -> <<>>

\* cfg!(feature = "local")
LocalFeature == feature_local

\* the body of the task the arm of e spawns, or NoTask
SpawnedKind_notOnPeerRemoved(e) ==
    CASE e.type = "PeerAdded" -> "try_interval_replication"
      [] e.type = "FailedToFetchHolders" -> "record_node_issues"
      [] OTHER -> NoTask
SpawnedKind(e) ==
    CASE e.type \in {"PeerAdded", "PeerRemoved"} -> "try_interval_replication"
      [] e.type = "NewListenAddr" /\ ~LocalFeature -> "dial"
      [] e.type = "QueryRequestReceived" -> "handle_query"
      [] e.type = "UnverifiedRecord" -> "validate_and_store_record"
      [] e.type = "FailedToFetchHolders" -> "record_node_issues"
      [] e.type = "QuoteVerification" -> "quotes_verification"
      [] e.type = "ChunkProofVerification" -> "chunk_proof_verify_peer"
      [] OTHER -> NoTask

\* what a task body awaits (a suspension point on the Network handle)
AwaitedOps(kind) ==
    CASE kind = "dial" -> {"dial"}
      [] kind = "handle_query" -> {"handle_query"}
      [] kind = "validate_and_store_record" -> {"validate_and_store_record"}
      [] kind = "quotes_verification" -> {"quotes_verification"}
      [] kind = "chunk_proof_verify_peer" -> {"chunk_proof_verify_peer"}
      [] kind = "storage_challenge" -> {"storage_challenge"}
      [] OTHER -> {}

\* a spawned task: by is "event" (id is the event's arrival number, which also names
\* the response channel moved into a query task) or "tick" (id is the tick's number)
Task(by, id, kind, query, bad_nodes, record) ==
    [by |-> by, id |-> id, kind |-> kind, query |-> query, bad_nodes |-> bad_nodes,
     record |-> record]

\* Self::try_interval_replication(network), called for the trigger (by, id)
try_interval_replication(calls, trigger) ==
    IF trigger \in DOMAIN calls
    THEN [calls EXCEPT ![trigger] = @ + 1]
    ELSE (trigger :> 1) @@ calls

\* network.record_node_issues(peer_id, issue)
record_node_issues(issues, peer_id, issue) ==
    IF <<peer_id, issue>> \in DOMAIN issues
    THEN [issues EXCEPT ![<<peer_id, issue>>] = @ + 1]
    ELSE (<<peer_id, issue>> :> 1) @@ issues

\* for peer_id in bad_nodes { network.record_node_issues(peer_id, ReplicationFailure) }
ForEachFirstOnly(issues, bad_nodes) ==
    IF bad_nodes = <<>> THEN issues
    ELSE record_node_issues(issues, Head(bad_nodes), "ReplicationFailure")
RECURSIVE ForEachBadNode(_, _)
ForEachBadNode(issues, bad_nodes) ==
    IF bad_nodes = <<>> THEN issues
    ELSE ForEachBadNode(record_node_issues(issues, Head(bad_nodes), "ReplicationFailure"),
                        Tail(bad_nodes))

\* network.dial(addr)
dial(addr) == IF addr \in unreachable THEN "Err" ELSE "Ok"

\* for addr in peers { if let Err(err) = network.dial(addr).await { error!(..) } }:
\* the calls of network.dial made, in order, with the result of each
RECURSIVE DialUntilError(_)
DialUntilError(peers) ==
    IF peers = <<>> THEN <<>>
    ELSE IF dial(Head(peers)) = "Err" THEN <<<<Head(peers), "Err">>>>
    ELSE <<<<Head(peers), "Ok">>>> \o DialUntilError(Tail(peers))
RECURSIVE DialEach(_)
DialEach(peers) ==
    IF peers = <<>> THEN <<>>
    ELSE <<<<Head(peers), dial(Head(peers))>>>> \o DialEach(Tail(peers))

\* self.record_metrics(marker)
record_metrics(recorded, marker) ==
    IF marker \in DOMAIN recorded
    THEN [recorded EXCEPT ![marker] = @ + 1]
    ELSE (marker :> 1) @@ recorded

RECURSIVE RecordAll(_, _)
RecordAll(recorded, markers) ==
    IF markers = <<>> THEN recorded
    ELSE RecordAll(record_metrics(recorded, Head(markers)), Tail(markers))

Marker(name, payload) == <<name, payload>>

\* the markers the arm of e records before it returns
Markers(e) ==
    CASE e.type = "PeerAdded" ->
             <<Marker("PeersInRoutingTable", e.count),
               Marker("PeerAddedToRoutingTable", <<>>),
               Marker("IntervalReplicationTriggered", <<>>)>>
      [] e.type = "PeerRemoved" ->
             <<Marker("PeersInRoutingTable", e.count),
               Marker("PeerRemovedFromRoutingTable", <<>>),
               Marker("IntervalReplicationTriggered", <<>>)>>
      [] e.type = "KeysToFetchForReplication" ->
             <<Marker("fetching_keys_for_replication", <<>>)>>
      [] OTHER -> <<>>

\* self.validate_and_store_record(record): Ok(()) after storing, or Err without
validate_and_store_record(record) == record.verdict
StoredAfter(record, keys) ==
    IF validate_and_store_record(record) = "Ok" THEN keys \cup {record.key} ELSE keys

\* match validate_and_store_record(record).await { Ok(()) => debug!(..),
\*   Err(err) => record_metrics(Marker::RecordRejected(&key, &err)) }
PutOutcome_silent(record, recorded) ==
    IF validate_and_store_record(record) = "Ok"
    THEN recorded
    ELSE recorded
PutOutcome(record, recorded) ==
    IF validate_and_store_record(record) = "Ok"
    THEN recorded
    ELSE record_metrics(recorded,
                        Marker("RecordRejected",
                               <<record.key, validate_and_store_record(record)>>))

\* handle_query: the QueryResponse variant of the Query variant, wrapped in Response::Query
handle_query(query) == <<"Response::Query", query>>

\* network.send_response(res, channel)
send_response(res, channel, sent) ==
    [sent EXCEPT ![channel] = Append(@, res)]

\* the response channels known so far, with one more when e carries one
ChannelsAfter(e) ==
    IF e.type = "QueryRequestReceived" THEN (e.seq :> <<>>) @@ responses ELSE responses

\* the body of a task run on the event-loop task instead of being spawned
RunInline(t, sent) ==
    /\ tasks' = tasks
    /\ io_log' = io_log \cup {<<op, "loop">> : op \in AwaitedOps(t.kind)}
    /\ responses' = IF t.kind = "handle_query"
                    THEN send_response(handle_query(t.query), t.id, sent)
                    ELSE sent
\* tokio::task::spawn(async move { .. }): the body runs later, on a task of its own
Spawn(t, sent) ==
    /\ tasks' = tasks \cup {t}
    /\ io_log' = io_log
    /\ responses' = sent

handle_network_event(e) ==
    /\ peers_connected' = PeersConnectedAfter(e, peers_connected)
    /\ metrics' = RecordAll(metrics, Markers(e))
    /\ events_channel' = events_channel \o Broadcasts(e, peers_connected')
    /\ IF SpawnedKind(e) = NoTask
       THEN /\ tasks' = tasks
            /\ io_log' = io_log
            /\ responses' = ChannelsAfter(e)
       ELSE Spawn(Task("event", e.seq, SpawnedKind(e), e.query, e.bad_nodes, e.record),
                  ChannelsAfter(e))

(***************************************************************************)
(* The select loop of Node::run                                            *)
(***************************************************************************)
\* network_event_receiver.recv() on a non-empty channel: the oldest event
Recv_newest(q) == [event |-> q[Len(q)], rest |-> SubSeq(q, 1, Len(q) - 1)]
Recv(q) == [event |-> Head(q), rest |-> Tail(q)]

\* the Some(event) arm falls through to the next iteration
AfterSome_breakOnTerminate(e) == IF e.type = "TerminateNode" THEN "exited" ELSE "running"
AfterSome(e) == "running"

\* the None arm ends in `break`
AfterNone_continue == "running"
AfterNone == "exited"

LoopRecvSome ==
    /\ loop_pc = "running"
    /\ receiver # <<>>
    /\ LET r == Recv(receiver) IN
         /\ receiver' = r.rest
         /\ dispatched' = Append(dispatched, r.event)
         /\ handle_network_event(r.event)
         /\ loop_pc' = AfterSome(r.event)
    /\ UNCHANGED <<senderOpen, arrived, rt_peers, ticks>>
    /\ UNCHANGED <<netVars, dialVars, stored, tickerVars, nonLoopVars>>

LoopRecvNone ==
    /\ loop_pc = "running"
    /\ receiver = <<>>
    /\ ~senderOpen
    /\ events_channel' = Append(events_channel, NodeEvent("ChannelClosed", <<>>, 0, 0))
    /\ loop_pc' = AfterNone
    /\ UNCHANGED <<receiver, senderOpen, arrived, rt_peers, peers_connected, dispatched,
                   tasks, ticks, responses, io_log>>
    /\ UNCHANGED <<netVars, dialVars, stored, metrics, tickerVars, nonLoopVars>>

\* a ticker arm of the select: the task it spawns, if any
TickArm(kind) ==
    /\ loop_pc = "running"
    /\ ticks < MaxTicks
    /\ ticks' = ticks + 1
    /\ IF kind = NoTask
       THEN UNCHANGED <<tasks, io_log, responses>>
       ELSE Spawn(Task("tick", ticks + 1, kind, NoQuery, <<>>, NoPut), responses)
    /\ metrics' = IF kind = "try_interval_replication"
                  THEN record_metrics(metrics, Marker("IntervalReplicationTriggered", <<>>))
                  ELSE metrics
    /\ UNCHANGED <<receiver, senderOpen, arrived, rt_peers, loop_pc, peers_connected,
                   events_channel, dispatched>>
    /\ UNCHANGED <<netVars, dialVars, stored, nonLoopVars>>

\* a ticker arm selected at some time the model does not follow
Tick(kind) == TickArm(kind) /\ UNCHANGED tickerVars

ReplicationTick == Tick("try_interval_replication")

UptimeMetricsTick == Tick(NoTask)

IrrelevantRecordsCleanupTick == Tick("trigger_irrelevant_record_cleanup")

StorageChallengeTick == Tick("storage_challenge")

(***************************************************************************)
(* The tickers of Node::run, with the clock                                *)
(***************************************************************************)
\* the tickers in the order Node::run creates them
TickerNames == <<"replication", "uptime", "cleanup", "challenge">>

TickerSet == {TickerNames[i] : i \in DOMAIN TickerNames}

\* the task the arm of a ticker spawns
TickerKind(name) ==
    CASE name = "replication" -> "try_interval_replication"
      [] name = "uptime" -> NoTask
      [] name = "cleanup" -> "trigger_irrelevant_record_cleanup"
      [] name = "challenge" -> "storage_challenge"

\* rng.gen_range(low..high): the half-open range
gen_range(low, high) == low..(high - 1)

\* the values of a range the model follows: those at its ends and in its middle
Sampled(low, high) ==
    gen_range(low, high) \cap {low - 1, low, (low + high) \div 2, high - 1, high}

ReplicationIntervals_fromZero == Sampled(1, PERIODIC_REPLICATION_INTERVAL_MAX_S)
ReplicationIntervals ==
    Sampled(PERIODIC_REPLICATION_INTERVAL_MAX_S \div 2, PERIODIC_REPLICATION_INTERVAL_MAX_S)

StorageChallengeIntervals ==
    Sampled(STORE_CHALLENGE_INTERVAL_MAX_S \div 2, STORE_CHALLENGE_INTERVAL_MAX_S)

\* the periods a ticker may be created with
Periods(name) ==
    CASE name = "replication" -> ReplicationIntervals
      [] name = "uptime" -> {UPTIME_METRICS_UPDATE_INTERVAL}
      [] name = "cleanup" -> {UNRELEVANT_RECORDS_CLEANUP_INTERVAL}
      [] name = "challenge" -> StorageChallengeIntervals

NoTicker == [period |-> 0, created |-> 0, deadline |-> 0, fired |-> 0]

\* tokio::time::interval(period): the first tick is due at once
interval(period, at) == [period |-> period, created |-> at, deadline |-> at, fired |-> 0]

\* Interval::tick() completing: the next tick is due one period after this one was
FirstTick_notAwaited(ticker) == ticker
FirstTick(ticker) == [ticker EXCEPT !.deadline = @ + ticker.period]

LoopTick(ticker) ==
    [ticker EXCEPT !.deadline = @ + ticker.period, !.fired = @ + 1]

At(step, i) == [step |-> step, ticker |-> i]
InLoop == At("loop", 0)

\* tokio::time::interval(..) for the next ticker, after sampling its period
CreateTicker ==
    /\ t_pc.step = "interval"
    /\ \E period \in Periods(TickerNames[t_pc.ticker]) :
         tickers' = [tickers EXCEPT ![TickerNames[t_pc.ticker]] = interval(period, now)]
    /\ t_pc' = At("tick", t_pc.ticker)
    /\ UNCHANGED <<now, delays>>
    /\ UNCHANGED <<receiver, senderOpen, arrived, rt_peers, loop_pc, peers_connected,
                   events_channel, dispatched, tasks, ticks, responses, io_log>>
    /\ UNCHANGED <<netVars, dialVars, stored, metrics, nonLoopVars>>

\* let _ = <ticker>.tick().await, before the loop
AwaitFirstTick ==
    /\ t_pc.step = "tick"
    /\ now >= tickers[TickerNames[t_pc.ticker]].deadline
    /\ tickers' = [tickers EXCEPT ![TickerNames[t_pc.ticker]] = FirstTick(@)]
    /\ t_pc' = IF t_pc.ticker = Len(TickerNames) THEN InLoop
               ELSE At("interval", t_pc.ticker + 1)
    /\ UNCHANGED <<now, delays>>
    /\ UNCHANGED <<receiver, senderOpen, arrived, rt_peers, loop_pc, peers_connected,
                   events_channel, dispatched, tasks, ticks, responses, io_log>>
    /\ UNCHANGED <<netVars, dialVars, stored, metrics, nonLoopVars>>

\* the deadlines of the tickers created so far
Deadlines == {tickers[name].deadline : name \in {n \in TickerSet : tickers[n] # NoTicker}}

\* time passes: up to a deadline not yet reached, or by a second of delay
Advance ==
    /\ ticks < MaxTicks
    /\ \/ /\ now' \in {d \in Deadlines : d > now}
          /\ delays' = delays
       \/ /\ delays < MaxDelays
          /\ now' = now + 1
          /\ delays' = delays + 1
    /\ UNCHANGED <<t_pc, tickers>>
    /\ UNCHANGED <<receiver, senderOpen, arrived, rt_peers, loop_pc, peers_connected,
                   events_channel, dispatched, tasks, ticks, responses, io_log>>
    /\ UNCHANGED <<netVars, dialVars, stored, metrics, nonLoopVars>>

\* the arm of a ticker whose tick is due, in the loop
TimedTick(name) ==
    /\ t_pc = InLoop
    /\ now >= tickers[name].deadline
    /\ TickArm(TickerKind(name))
    /\ tickers' = [tickers EXCEPT ![name] = LoopTick(@)]
    /\ UNCHANGED <<now, t_pc, delays>>

TimedReplicationTick == TimedTick("replication")

TimedUptimeMetricsTick == TimedTick("uptime")

TimedIrrelevantRecordsCleanupTick == TimedTick("cleanup")

TimedStorageChallengeTick == TimedTick("challenge")

\* the recv arm, once Node::run is in its loop
TimedRecvNone == t_pc = InLoop /\ LoopRecvNone

(***************************************************************************)
(* Spawned tasks: each runs to completion at some later time, in any order *)
(***************************************************************************)
\* the channel a query task answers on: the one moved into its async block
ResponseChannel_ofAnotherQuery(t) ==
    LET others == {u \in tasks : u.kind = "handle_query" /\ u # t}
    IN IF others = {} THEN t.id ELSE (CHOOSE u \in others : TRUE).id
ResponseChannel(t) == t.id

\* the body of the task ends in an error: a dial that returns Err, a record that
\* validate_and_store_record rejects
TaskFails(t) ==
    \/ t.kind = "dial" /\ \E i \in DOMAIN initial_peers : dial(initial_peers[i]) = "Err"
    \/ t.kind = "validate_and_store_record" /\ validate_and_store_record(t.record) # "Ok"

\* let _handle = spawn(..): the JoinHandle is dropped, nothing of the task reaches
\* the loop
LoopAfterTask_joined(t, pc) == IF TaskFails(t) THEN "exited" ELSE pc
LoopAfterTask(t, pc) == pc

TaskRun(t) ==
    /\ t \in tasks
    /\ loop_pc' = LoopAfterTask(t, loop_pc)
    /\ tasks' = tasks \ {t}
    /\ io_log' = io_log \cup {<<op, "task">> : op \in AwaitedOps(t.kind)}
    /\ responses' =
         IF t.kind = "handle_query"
         THEN send_response(handle_query(t.query), ResponseChannel(t), responses)
         ELSE responses
    /\ replications' =
         IF t.kind = "try_interval_replication"
         THEN try_interval_replication(replications, <<t.by, t.id>>)
         ELSE replications
    /\ node_issues' =
         IF t.kind = "record_node_issues"
         THEN ForEachBadNode(node_issues, t.bad_nodes)
         ELSE node_issues
    /\ dial_log' =
         IF t.kind = "dial" THEN (t.id :> DialEach(initial_peers)) @@ dial_log ELSE dial_log
    /\ stored' =
         IF t.kind = "validate_and_store_record" THEN StoredAfter(t.record, stored)
         ELSE stored
    /\ metrics' =
         IF t.kind = "validate_and_store_record" THEN PutOutcome(t.record, metrics)
         ELSE metrics
    /\ UNCHANGED <<receiver, senderOpen, arrived, rt_peers, peers_connected,
                   events_channel, dispatched, ticks>>
    /\ UNCHANGED <<feature_local, initial_peers, unreachable>>
    /\ UNCHANGED <<tickerVars, nonLoopVars>>

RunTask == \E t \in tasks : TaskRun(t)

(***************************************************************************)
(* Node::respond_x_closest_chunk_proof: the storage-challenge prover       *)
(***************************************************************************)
Addrs == 0..MaxAddr

\* the nonces challenged with
Nonces == {7, 9}

Min(a, b) == IF a <= b THEN a ELSE b

\* the bytes stored under address a (a chunk's address is the hash of its content)
Content(a) == <<"content", a>>

Record(rtype, value) == [rtype |-> rtype, value |-> value]

\* the type of a record that is not a Chunk
NonChunkType(a) == IF a % 2 = 0 THEN "Register" ELSE "Scratchpad"

\* the record stores the prover is run on: address -> record, for the held addresses
RecordStore(chunks, others) ==
    [a \in chunks \cup others |->
        Record(IF a \in chunks THEN "Chunk" ELSE NonChunkType(a), Content(a))]

\* NetworkAddress::distance: the XOR metric
RECURSIVE Xor(_, _)
Xor(a, b) ==
    IF a = 0 /\ b = 0 THEN 0
    ELSE (((a % 2) + (b % 2)) % 2) + 2 * Xor(a \div 2, b \div 2)

distance(a, b) == Xor(a, b)

\* ChunkProof::new(value, nonce): H(nonce_le_bytes || value), H collision resistant
ChunkProof(value, nonce) == <<"ChunkProof", nonce, value>>

Ok(v) == <<"Ok", v>>
Err(e) == <<"Err", e>>
ChunkDoesNotExist(key) == <<"ChunkDoesNotExist", key>>

\* what a call of network.get_local_record(a) can return now: "some" is
\* Ok(Some(record)), "none" is Ok(None), "err" is Err(_)
get_local_record(a) ==
    {IF a \in DOMAIN p_store THEN "some" ELSE "none"}
        \cup (IF p_errors < MaxErrors THEN {"err"} ELSE {})

\* what a call of network.get_all_local_record_addresses() can return now
get_all_local_record_addresses ==
    {"ok"} \cup (IF p_errors < MaxErrors THEN {"err"} ELSE {})

Call(name, addr, outcome) == [call |-> name, addr |-> addr, outcome |-> outcome]

RECURSIVE Ascending(_)
Ascending(S) ==
    IF S = {} THEN <<>>
    ELSE LET m == CHOOSE x \in S : \A y \in S : x <= y
         IN <<m>> \o Ascending(S \ {m})

Reverse(q) == [i \in 1..Len(q) |-> q[Len(q) + 1 - i]]

\* the orders in which the map of local addresses may be iterated
IterationOrders(S) == {Ascending(S), Reverse(Ascending(S))}

\* .filter_map(..): the addresses of q whose record type is Chunk, in the order of q
RECURSIVE ChunkAddrs(_)
ChunkAddrs(q) ==
    IF q = <<>> THEN <<>>
    ELSE (IF p_store[Head(q)].rtype = "Chunk" THEN <<Head(q)>> ELSE <<>>)
             \o ChunkAddrs(Tail(q))

\* sort_by_key(|addr| key.distance(addr)): a stable sort
RECURSIVE InsertByDistance(_, _, _)
InsertByDistance(x, sorted, key) ==
    IF sorted = <<>> THEN <<x>>
    ELSE IF distance(key, x) < distance(key, Head(sorted))
         THEN <<x>> \o sorted
         ELSE <<Head(sorted)>> \o InsertByDistance(x, Tail(sorted), key)

\* the enumeration order kept: no sort
KeepEnumerationOrder(q, key) == q

RECURSIVE SortFarthestFirst(_, _)
SortFarthestFirst(q, key) ==
    IF q = <<>> THEN <<>>
    ELSE Reverse(InsertByDistance(q[Len(q)],
                                  Reverse(SortFarthestFirst(SubSeq(q, 1, Len(q) - 1), key)),
                                  key))
RECURSIVE SortByDistance(_, _)
SortByDistance(q, key) ==
    IF q = <<>> THEN <<>>
    ELSE InsertByDistance(q[Len(q)], SortByDistance(SubSeq(q, 1, Len(q) - 1), key), key)

\* std::cmp::min(difficulty, CLOSE_GROUP_SIZE)
workload_factor_uncapped(difficulty) == difficulty
workload_factor_atLeastOne(difficulty) ==
    IF difficulty = 0 THEN 1 ELSE Min(difficulty, CLOSE_GROUP_SIZE)
workload_factor(difficulty) == Min(difficulty, CLOSE_GROUP_SIZE)

\* .iter().take(n)
Take_all(q, n) == q
Take(q, n) == SubSeq(q, 1, Min(n, Len(q)))

Answer(addr, proof) == [addr |-> addr, proof |-> proof]

\* difficulty == 1: the single answer for key, given the outcome of the local lookup
SingleAnswer_onlyWhenFound(outcome) ==
    IF outcome = "some"
    THEN <<Answer(p_key, Ok(ChunkProof(p_store[p_key].value, p_nonce)))>>
    ELSE <<>>
SingleAnswer(outcome) ==
    <<Answer(p_key,
             IF outcome = "some"
             THEN Ok(ChunkProof(p_store[p_key].value, p_nonce))
             ELSE Err(ChunkDoesNotExist(p_key)))>>

\* the difficulty == 1 branch
ProverSingle ==
    /\ p_pc = "start"
    /\ p_difficulty = 1
    /\ \E outcome \in get_local_record(p_key) :
         /\ p_results' = p_results \o SingleAnswer(outcome)
         /\ p_lookups' = Append(p_lookups, Call("get_local_record", p_key, outcome))
         /\ p_errors' = IF outcome = "err" THEN p_errors + 1 ELSE p_errors
    /\ p_pc' = "done"
    /\ UNCHANGED <<p_store, p_key, p_nonce, p_difficulty, p_addrs>>
    /\ UNCHANGED nonProverVars

\* the else branch up to the for loop: enumerate, keep the chunks, sort, take
ProverEnumerate ==
    /\ p_pc = "start"
    /\ p_difficulty # 1
    /\ \E outcome \in get_all_local_record_addresses :
         /\ p_lookups' =
                Append(p_lookups, Call("get_all_local_record_addresses", 0, outcome))
         /\ p_errors' = IF outcome = "err" THEN p_errors + 1 ELSE p_errors
         /\ IF outcome = "err"
            THEN p_addrs' = <<>>
            ELSE \E all_local_records \in IterationOrders(DOMAIN p_store) :
                    p_addrs' = Take(SortByDistance(ChunkAddrs(all_local_records), p_key),
                                    workload_factor(p_difficulty))
    /\ p_pc' = IF p_addrs' = <<>> THEN "done" ELSE "prove"
    /\ UNCHANGED <<p_store, p_key, p_nonce, p_difficulty, p_results>>
    /\ UNCHANGED nonProverVars

\* the body of the for loop: what it pushes for addr, given the outcome of the lookup
ProofAnswer_errWhenUnread(addr, outcome) ==
    <<Answer(addr,
             IF outcome = "some"
             THEN Ok(ChunkProof(p_store[addr].value, p_nonce))
             ELSE Err(ChunkDoesNotExist(addr)))>>
ProofAnswer(addr, outcome) ==
    IF outcome = "some"
    THEN <<Answer(addr, Ok(ChunkProof(p_store[addr].value, p_nonce)))>>
    ELSE <<>>

\* one iteration of the for loop
ProverProve ==
    /\ p_pc = "prove"
    /\ LET addr == Head(p_addrs) IN
         \E outcome \in get_local_record(addr) :
            /\ p_results' = p_results \o ProofAnswer(addr, outcome)
            /\ p_lookups' = Append(p_lookups, Call("get_local_record", addr, outcome))
            /\ p_errors' = IF outcome = "err" THEN p_errors + 1 ELSE p_errors
    /\ p_addrs' = Tail(p_addrs)
    /\ p_pc' = IF p_addrs' = <<>> THEN "done" ELSE "prove"
    /\ UNCHANGED <<p_store, p_key, p_nonce, p_difficulty>>
    /\ UNCHANGED nonProverVars

(***************************************************************************)
(* Node::storage_challenge and chunk_proof_verify_peer: the verifier       *)
(***************************************************************************)
\* network.peer_id(): the node's own id; the other peers are 1..MaxPeers, in the
\* order of their closeness to the node
SelfId == 0

Others(n) == [i \in 1..n |-> i]

InsertAt(q, k, x) == SubSeq(q, 1, k) \o <<x>> \o SubSeq(q, k + 1, Len(q))

\* what get_closest_k_value_local_peers() may return on Ok: the closest other peers,
\* with or without the node's own id among them
ClosestLists ==
    {Others(n) : n \in 0..MaxPeers}
        \cup UNION {{InsertAt(Others(n), k, SelfId) : k \in 0..n} : n \in 0..MaxPeers}

\* what a call of network.get_closest_k_value_local_peers() can return now
get_closest_k_value_local_peers ==
    {"ok"} \cup (IF p_errors < MaxErrors THEN {"err"} ELSE {})

\* closest_peers.len() < CLOSE_GROUP_SIZE
NotEnoughNeighbours_offByOne(n) == n < CLOSE_GROUP_SIZE - 1
NotEnoughNeighbours(n) == n < CLOSE_GROUP_SIZE

\* the number of candidates below which the challenge is skipped
MinVerifyCandidates == 50

\* num_of_targets < 50
NotEnoughCandidates(n) == n < MinVerifyCandidates

\* verify_candidates: the addresses of all_keys whose record type is Chunk
VerifyCandidates_allRecords(all_keys) == all_keys
VerifyCandidates(all_keys) == ChunkAddrs(all_keys)

\* peer_id == network.peer_id()
IsSelf_never(peer_id) == FALSE
IsSelf(peer_id) == peer_id = SelfId

\* OsRng.gen_range(0..num_of_targets): the first and the last index stand for all
Indexes(num_of_targets) == {0, num_of_targets - 1}

\* send_and_get_responses(&[peer_id], &request, true) with the request
\* Query::GetChunkExistenceProof { key, nonce, difficulty }, as noted in c_requests;
\* its key and nonce are c_key and c_nonce until the call returns
Request(peer_id, difficulty) ==
    [peer |-> peer_id, query |-> "GetChunkExistenceProof", difficulty |-> difficulty]

\* an address the node holds no record for
UnheldAddr == MinVerifyCandidates + MaxNonChunk + 1

\* the (addr, proof) pairs a peer may answer with: for a held or an unheld address, a
\* proof under either nonce or an error
PeerAnswers ==
    {Answer(a, Ok(ChunkProof(Content(a), n))) : a \in {0, UnheldAddr}, n \in Nonces}
        \cup {Answer(a, Err(ChunkDoesNotExist(a))) : a \in {0, UnheldAddr}}

RECURSIVE SeqsUpTo(_, _)
SeqsUpTo(S, n) ==
    IF n = 0 THEN {<<>>}
    ELSE LET shorter == SeqsUpTo(S, n - 1)
         IN shorter \cup {Append(q, x) : q \in {r \in shorter : Len(r) = n - 1}, x \in S}

\* responses.get(&peer_id): nothing, an error, another response, or the answers
NoReply == [kind |-> "none", answers |-> <<>>]
Reply(kind, answers) == [kind |-> kind, answers |-> answers]

NonAnswerReplies == {Reply(k, <<>>) : k \in {"absent", "error", "other_response"}}

\* every reply within the bound
AllReplies ==
    NonAnswerReplies \cup {Reply("answers", q) : q \in SeqsUpTo(PeerAnswers, MaxAnswers)}

\* a reply of each kind, with at most one answer
FewReplies ==
    NonAnswerReplies \cup {Reply("answers", q) : q \in SeqsUpTo(PeerAnswers, 1)}

\* the replies drawn for a call made by the given caller
RepliesTo(caller) == IF caller = "storage_challenge" THEN FewReplies ELSE AllReplies

\* if let Some(Ok(Response::Query(QueryResponse::GetChunkExistenceProof(answers))))
IsAnswers(reply) == reply.kind = "answers"

\* answers.is_empty(): return false
EmptyAnswersFail_never(answers) == FALSE
EmptyAnswersFail(answers) == answers = <<>>

\* one iteration over (addr, proof): what is noted for the answer
Checked(answer, outcome) == IF answer.proof[1] = "Ok" THEN outcome ELSE "not_ok"

\* *proof != expected_proof, for an Ok proof and a record read locally
WrongAnswer_whenUnheld(answer, outcome, nonce) ==
    /\ answer.proof[1] = "Ok"
    /\ \/ outcome # "some"
       \/ answer.proof[2] # ChunkProof(p_store[answer.addr].value, nonce)
WrongAnswer(answer, outcome, nonce) ==
    /\ answer.proof[1] = "Ok"
    /\ outcome = "some"
    /\ answer.proof[2] # ChunkProof(p_store[answer.addr].value, nonce)

\* the peer the caller records the failure against
IssuePeer_firstNeighbour(peer_id) ==
    IF c_closest = <<>> THEN peer_id ELSE c_closest[1]
IssuePeer(peer_id) == peer_id

\* chunk_proof_verify_peer returns: the caller records the issue when it returned false,
\* and goes on with its loop or ends
Return(result) ==
    /\ node_issues' =
         IF result THEN node_issues
         ELSE record_node_issues(node_issues, IssuePeer(c_peer), "FailedChunkProofCheck")
    /\ c_pc' = IF c_caller = "storage_challenge" THEN "for" ELSE "done"

\* storage_challenge up to the first check
ChallengeClosest ==
    /\ c_pc = "closest_peers"
    /\ \E outcome \in get_closest_k_value_local_peers :
         /\ p_lookups' =
                Append(p_lookups, Call("get_closest_k_value_local_peers", 0, outcome))
         /\ p_errors' = IF outcome = "err" THEN p_errors + 1 ELSE p_errors
         /\ IF outcome = "err"
            THEN /\ c_closest' = <<>>
                 /\ c_pc' = "done"
            ELSE \E returned \in ClosestLists :
                    /\ c_closest' = Take(returned, CLOSE_GROUP_SIZE)
                    /\ c_pc' = IF NotEnoughNeighbours(Len(c_closest'))
                               THEN "done" ELSE "candidates"
    /\ UNCHANGED <<c_caller, c_todo, c_candidates, c_peer, c_key, c_nonce, c_reply,
                   c_checked, c_requests>>
    /\ UNCHANGED <<p_store, p_key, p_nonce, p_difficulty, p_pc, p_addrs, p_results>>
    /\ UNCHANGED <<queryVars, paymentVars, otherVars>>
    /\ UNCHANGED <<loopVars, netVars>>

\* storage_challenge from verify_candidates to the for loop
ChallengeCandidates ==
    /\ c_pc = "candidates"
    /\ \E outcome \in get_all_local_record_addresses :
         /\ p_lookups' =
                Append(p_lookups, Call("get_all_local_record_addresses", 0, outcome))
         /\ p_errors' = IF outcome = "err" THEN p_errors + 1 ELSE p_errors
         /\ IF outcome = "err"
            THEN /\ c_candidates' = <<>>
                 /\ c_pc' = "done"
            ELSE \E all_keys \in IterationOrders(DOMAIN p_store) :
                    /\ c_candidates' = VerifyCandidates(all_keys)
                    /\ c_pc' = IF NotEnoughCandidates(Len(c_candidates'))
                               THEN "done" ELSE "for"
    /\ c_todo' = IF c_pc' = "for" THEN c_closest ELSE <<>>
    /\ UNCHANGED <<c_caller, c_closest, c_peer, c_key, c_nonce, c_reply, c_checked,
                   c_requests>>
    /\ UNCHANGED <<p_store, p_key, p_nonce, p_difficulty, p_pc, p_addrs, p_results>>
    /\ UNCHANGED <<queryVars, paymentVars, otherVars>>
    /\ UNCHANGED <<loopVars, netVars>>

\* the head of the for loop: the next peer, skipped when it is the node itself,
\* otherwise challenged on one of the candidates
ChallengeNextPeer ==
    /\ c_pc = "for"
    /\ IF c_todo = <<>>
       THEN /\ c_pc' = "done"
            /\ UNCHANGED <<c_todo, c_peer, c_key>>
       ELSE /\ c_todo' = Tail(c_todo)
            /\ IF IsSelf(Head(c_todo))
               THEN /\ c_pc' = "for"
                    /\ UNCHANGED <<c_peer, c_key>>
               ELSE /\ c_pc' = "request"
                    /\ c_peer' = Head(c_todo)
                    /\ \E index \in Indexes(Len(c_candidates)) :
                         c_key' = c_candidates[index + 1]
    /\ c_nonce' = 0
    /\ c_reply' = NoReply
    /\ c_checked' = <<>>
    /\ UNCHANGED <<c_caller, c_closest, c_candidates, c_requests>>
    /\ UNCHANGED <<queryVars, paymentVars, otherVars>>
    /\ UNCHANGED <<loopVars, netVars, proverVars>>

\* chunk_proof_verify_peer up to the for loop over the answers
VerifyRequest ==
    /\ c_pc = "request"
    /\ \E nonce \in Nonces, reply \in RepliesTo(c_caller) :
         /\ c_nonce' = nonce
         /\ c_requests' = Append(c_requests, Request(c_peer, CLOSE_GROUP_SIZE))
         /\ c_reply' = reply
         /\ IF IsAnswers(reply) /\ ~EmptyAnswersFail(reply.answers)
            THEN /\ c_pc' = "answers"
                 /\ UNCHANGED node_issues
            ELSE Return(FALSE)
    /\ UNCHANGED <<c_caller, c_closest, c_todo, c_candidates, c_peer, c_key, c_checked>>
    /\ UNCHANGED <<queryVars, paymentVars, otherVars>>
    /\ UNCHANGED <<loopVars, replications, proverVars>>

\* one iteration of the for loop over the answers, or its end
VerifyAnswer ==
    /\ c_pc = "answers"
    /\ IF Len(c_checked) = Len(c_reply.answers)
       THEN /\ Return(TRUE)
            /\ UNCHANGED <<c_checked, p_errors>>
       ELSE LET answer == c_reply.answers[Len(c_checked) + 1] IN
              \E outcome \in (IF answer.proof[1] = "Ok"
                              THEN get_local_record(answer.addr) ELSE {"not_ok"}) :
                 /\ c_checked' = Append(c_checked, Checked(answer, outcome))
                 /\ p_errors' = IF outcome = "err" THEN p_errors + 1 ELSE p_errors
                 /\ IF WrongAnswer(answer, outcome, c_nonce)
                    THEN Return(FALSE)
                    ELSE UNCHANGED <<c_pc, node_issues>>
    /\ UNCHANGED <<c_caller, c_closest, c_todo, c_candidates, c_peer, c_key, c_nonce,
                   c_reply, c_requests>>
    /\ UNCHANGED <<p_store, p_key, p_nonce, p_difficulty, p_pc, p_addrs, p_results,
                   p_lookups>>
    /\ UNCHANGED <<queryVars, paymentVars, otherVars>>
    /\ UNCHANGED <<loopVars, replications>>

(***************************************************************************)
(* The verifier challenging a peer that answers with the prover procedure  *)
(***************************************************************************)
\* the nonce field of Query::GetChunkExistenceProof, as the peer receives it
RequestNonce_other(nonce) == CHOOSE n \in Nonces : n # nonce
RequestNonce(nonce) == nonce

\* chunk_proof_verify_peer up to the await of send_and_get_responses: the request
\* reaches the peer, which runs respond_x_closest_chunk_proof on its records; the peer
\* holds the records of p_store, with the values the verifier has for them
SendToProver ==
    /\ c_pc = "request"
    /\ \E nonce \in Nonces :
         /\ c_nonce' = nonce
         /\ p_nonce' = RequestNonce(nonce)
    /\ c_requests' = Append(c_requests, Request(c_peer, CLOSE_GROUP_SIZE))
    /\ p_key' = c_key
    /\ p_difficulty' = CLOSE_GROUP_SIZE
    /\ p_pc' = "start"
    /\ p_addrs' = <<>>
    /\ p_results' = <<>>
    /\ c_pc' = "awaiting"
    /\ UNCHANGED <<c_caller, c_closest, c_todo, c_candidates, c_peer, c_key, c_reply,
                   c_checked>>
    /\ UNCHANGED <<p_store, p_lookups, p_errors>>
    /\ UNCHANGED <<queryVars, paymentVars, otherVars>>
    /\ UNCHANGED <<loopVars, netVars>>

\* send_and_get_responses returns the answers of the peer, or nothing when the
\* response is lost; then as VerifyRequest
ProverAnswerReceived ==
    /\ c_pc = "awaiting"
    /\ p_pc = "done"
    /\ \E reply \in {Reply("answers", p_results), Reply("absent", <<>>)} :
         /\ c_reply' = reply
         /\ IF IsAnswers(reply) /\ ~EmptyAnswersFail(reply.answers)
            THEN /\ c_pc' = "answers"
                 /\ UNCHANGED node_issues
            ELSE Return(FALSE)
    /\ p_pc' = "idle"
    /\ UNCHANGED <<c_caller, c_closest, c_todo, c_candidates, c_peer, c_key, c_nonce,
                   c_checked, c_requests>>
    /\ UNCHANGED <<p_store, p_key, p_nonce, p_difficulty, p_addrs, p_results, p_lookups,
                   p_errors>>
    /\ UNCHANGED <<queryVars, paymentVars, otherVars>>
    /\ UNCHANGED <<loopVars, replications>>

(***************************************************************************)
(* Node::handle_query: the arms other than GetChunkExistenceProof          *)
(***************************************************************************)
\* a NetworkAddress: of a peer, or of a record
NetworkAddress(kind, a) == [kind |-> kind, a |-> a]

\* NetworkAddress::from_peer(peer_id)
from_peer(peer_id) == NetworkAddress("PeerId", peer_id)

None == <<"None">>
Some(x) == <<"Some", x>>

\* NetworkAddress::as_record_key: a peer's address has no record key
as_record_key(key) == IF key.kind = "PeerId" THEN None ELSE Some(key.a)

\* NetworkAddress::to_record_key
to_record_key(address) == <<"RecordKey", address.kind, address.a>>

\* PrettyPrintRecordKey::from(&record_key).into_owned()
PrettyPrintRecordKey(record_key) == <<"PrettyPrintRecordKey", record_key>>

\* Bytes::from(record.value): the same bytes in a Bytes buffer
Bytes(value) == <<"Bytes", value>>

ProtocolError(name, payload) == <<name, payload>>

\* the addresses queried: of the records 0..MaxKey and of the peers 0..MaxKey
QueryAddresses == {NetworkAddress(kind, a) : kind \in {"PeerId", "RecordKey"}, a \in 0..MaxKey}

\* the rewards addresses a node may be configured with
PaymentAddresses == {"0xaa", "0xbb"}

\* the queries handled here, each with the payment_address passed to handle_query
Query(variant, key, payment_address) ==
    [variant |-> variant, key |-> key, payment_address |-> payment_address]
NoQueryHandled == Query(NoQuery, NetworkAddress("PeerId", 0), "none")
Queries ==
    {Query(variant, key, payment_address) :
        variant \in QueryVariants \ {"GetChunkExistenceProof"},
        key \in QueryAddresses, payment_address \in PaymentAddresses}

NoResponse == [variant |-> "none"]

\* the costs the record store may quote: zero for a record it holds
StoreCosts == {0, 1, 2}

\* what network.get_local_storecost(record_key) can return: Ok((cost, quoting_metrics,
\* bad_nodes)) or Err(_)
get_local_storecost(record_key) ==
    {Ok(<<cost, <<"QuotingMetrics", record_key>>, bad_nodes>>) :
        cost \in StoreCosts, bad_nodes \in {<<>>, <<1>>}}
        \cup {Err(ProtocolError("NetworkError", <<>>))}

\* what Self::create_quote_for_storecost(network, cost, address, quoting_metrics,
\* bad_nodes, payment_address) can return: the signed quote, or an error
create_quote_for_storecost(cost, address, quoting_metrics, bad_nodes, payment_address) ==
    {Ok([cost |-> cost, address |-> address, quoting_metrics |-> quoting_metrics,
         bad_nodes |-> bad_nodes, rewards_address |-> payment_address]),
     Err(ProtocolError("QuoteGenerationFailed", <<>>))}

\* what network.is_peer_shunned(target_address) can return
is_peer_shunned(target_address) ==
    {Ok(TRUE), Ok(FALSE), Err(ProtocolError("NetworkError", <<>>))}

NetworkCall(name, args, result) == [call |-> name, args |-> args, result |-> result]

\* the quote of the GetStoreCost response: store_cost is the result of
\* get_local_storecost, created the result of create_quote_for_storecost if called
StoreCostQuote_zeroQuoted(store_cost, created, record_key) ==
    IF store_cost[1] = "Ok"
    THEN created
    ELSE Err(ProtocolError("GetStoreCostFailed", <<>>))
StoreCostQuote(store_cost, created, record_key) ==
    IF store_cost[1] = "Ok"
    THEN IF store_cost[2][1] = 0
         THEN Err(ProtocolError("RecordExists", PrettyPrintRecordKey(record_key)))
         ELSE created
    ELSE Err(ProtocolError("GetStoreCostFailed", <<>>))

\* Query::GetStoreCost(address)
HandleGetStoreCost ==
    /\ q_response = NoResponse
    /\ q_query.variant = "GetStoreCost"
    /\ LET address == q_query.key
           record_key == to_record_key(address)
           self_id == SelfId
       IN \E store_cost \in get_local_storecost(record_key) :
            LET quoted == store_cost[1] = "Ok" /\ store_cost[2][1] # 0
                cost == store_cost[2][1]
                quoting_metrics == store_cost[2][2]
                bad_nodes == store_cost[2][3]
            IN \E created \in (IF quoted
                                THEN create_quote_for_storecost(cost, address, quoting_metrics,
                                         bad_nodes, q_query.payment_address)
                                ELSE {None}) :
                 /\ q_calls' =
                      <<NetworkCall("get_local_storecost", record_key, store_cost)>>
                      \o (IF quoted
                          THEN <<NetworkCall("create_quote_for_storecost",
                                             <<cost, address, q_query.payment_address>>,
                                             created)>>
                          ELSE <<>>)
                 /\ q_response' =
                      [variant |-> "GetStoreCost",
                       quote |-> StoreCostQuote(store_cost, created, record_key),
                       payment_address |-> q_query.payment_address,
                       peer_address |-> from_peer(self_id)]
    /\ UNCHANGED q_query
    /\ UNCHANGED <<loopVars, netVars, proverVars, challengeVars, paymentVars, otherVars>>

\* the ProtocolError of a record query that finds nothing
NotFound(variant, holder, key) ==
    ProtocolError(IF variant = "GetRegisterRecord" THEN "RegisterRecordNotFound"
                  ELSE "ReplicatedRecordNotFound",
                  [holder |-> holder, key |-> key])

\* result after the two nested if-lets: lookup is the result of get_local_record, or
\* None when the key has no record key and no lookup is made
RecordResult_okWhenAbsent(variant, our_address, key, lookup) ==
    IF as_record_key(key) # None /\ lookup \in {"some", "none"}
    THEN Ok(<<our_address,
              Bytes(IF as_record_key(key)[2] \in DOMAIN p_store
                    THEN p_store[as_record_key(key)[2]].value ELSE <<>>)>>)
    ELSE Err(NotFound(variant, our_address, key))
RecordResult(variant, our_address, key, lookup) ==
    IF as_record_key(key) # None /\ lookup = "some"
    THEN Ok(<<our_address, Bytes(p_store[as_record_key(key)[2]].value)>>)
    ELSE Err(NotFound(variant, our_address, key))

\* Query::GetRegisterRecord { requester, key } and Query::GetReplicatedRecord { .. }
HandleGetRecord ==
    /\ q_response = NoResponse
    /\ q_query.variant \in {"GetRegisterRecord", "GetReplicatedRecord"}
    /\ LET key == q_query.key
           our_address == from_peer(SelfId)
           record_key == as_record_key(key)
       IN \E lookup \in (IF record_key # None THEN get_local_record(record_key[2])
                         ELSE {"not called"}) :
            /\ q_calls' = IF record_key # None
                          THEN <<NetworkCall("get_local_record", record_key[2], lookup)>>
                          ELSE <<>>
            /\ p_errors' = IF lookup = "err" THEN p_errors + 1 ELSE p_errors
            /\ q_response' =
                 [variant |-> q_query.variant,
                  result |-> RecordResult(q_query.variant, our_address, key, lookup)]
    /\ UNCHANGED q_query
    /\ UNCHANGED <<p_store, p_key, p_nonce, p_difficulty, p_pc, p_addrs, p_results,
                   p_lookups>>
    /\ UNCHANGED <<loopVars, netVars, challengeVars, paymentVars, otherVars>>

\* if let Ok(result) = network.is_peer_shunned(..).await { result } else { false }
InTrouble_onError(shunned) == IF shunned[1] = "Ok" THEN shunned[2] ELSE TRUE
InTrouble(shunned) == IF shunned[1] = "Ok" THEN shunned[2] ELSE FALSE

\* Query::CheckNodeInProblem(target_address)
HandleCheckNodeInProblem ==
    /\ q_response = NoResponse
    /\ q_query.variant = "CheckNodeInProblem"
    /\ LET target_address == q_query.key
       IN \E shunned \in is_peer_shunned(target_address) :
            /\ q_calls' = <<NetworkCall("is_peer_shunned", target_address, shunned)>>
            /\ q_response' =
                 [variant |-> "CheckNodeInProblem",
                  reporter_address |-> from_peer(SelfId),
                  target_address |-> target_address,
                  is_in_trouble |-> InTrouble(shunned)]
    /\ UNCHANGED q_query
    /\ UNCHANGED <<loopVars, netVars, proverVars, challengeVars, paymentVars, otherVars>>

(***************************************************************************)
(* evmlib: Network::verify_data_payment and the verifier it delegates to   *)
(***************************************************************************)
QuoteHashes == {"Q", "Q2"}
RewardAddrs == {"R", "R2"}
Amounts == {999, 1000, 1001}
Timestamps == {100}
Expirations == {50, 100, 200}

\* a DataPayment log { indexed quote_hash, indexed reward_addr, amount }
DataPayment(quote_hash, reward_addr, amount) ==
    [quote_hash |-> quote_hash, reward_addr |-> reward_addr, amount |-> amount]

DataPayments ==
    {DataPayment(q, r, a) : q \in QuoteHashes, r \in RewardAddrs, a \in Amounts}

\* the receipt of a transaction: the timestamp of its block and its DataPayment logs
Receipt(mined, timestamp, logs) == [mined |-> mined, timestamp |-> timestamp, logs |-> logs]
NoReceipt == Receipt(FALSE, 0, <<>>)
Receipts ==
    {Receipt(TRUE, timestamp, logs) :
        timestamp \in Timestamps, logs \in SeqsUpTo(DataPayments, MaxLogs)}

\* what a payment is verified against
PaymentArgs(quote_hash, reward_addr, amount, quote_expiration_timestamp_in_secs) ==
    [quote_hash |-> quote_hash, reward_addr |-> reward_addr, amount |-> amount,
     quote_expiration_timestamp_in_secs |-> quote_expiration_timestamp_in_secs]
NoPayment == PaymentArgs("none", "none", 0, 0)

NoMemo == "NoMemo"

\* the index of the first DataPayment log of the receipt for the quote hash, or 0
Located(receipt, quote_hash) ==
    LET found == {i \in DOMAIN receipt.logs : receipt.logs[i].quote_hash = quote_hash}
    IN IF found = {} THEN 0 ELSE CHOOSE i \in found : \A j \in found : i <= j

\* the block timestamp is past the expiration of the quote
Expired_atExpiration(timestamp, expiration) == timestamp >= expiration
Expired(timestamp, expiration) == timestamp > expiration

\* transaction::verify_data_payment: the receipt is fetched, the log located, and the
\* recipient, the amount and the timestamp checked in this order
verify_data_payment(rpc, receipt, quote_hash, reward_addr, amount, expiration) ==
    IF rpc = "down" THEN "RpcUnavailable"
    ELSE IF Located(receipt, quote_hash) = 0 THEN "PaymentNotFound"
    ELSE LET log == receipt.logs[Located(receipt, quote_hash)]
         IN IF log.reward_addr # reward_addr THEN "WrongRecipient"
            ELSE IF log.amount < amount THEN "AmountMismatch"
            ELSE IF Expired(receipt.timestamp, expiration) THEN "QuoteExpired"
            ELSE "Ok"

\* Network::verify_data_payment: passes its arguments on, in the same order
Network_verify_data_payment(rpc, receipt, quote_hash, reward_addr, amount, expiration) ==
    verify_data_payment(rpc, receipt, quote_hash, reward_addr, amount, expiration)

\* the memo after a verification that read the chain: a success may be kept
MemoAfter_anyOutcome(outcome, keep) == IF keep THEN outcome ELSE NoMemo
MemoAfter(outcome, keep) == IF keep /\ outcome = "Ok" THEN outcome ELSE NoMemo

Verification(rpc, receipt, epoch, hit, outcome) ==
    [rpc |-> rpc, receipt |-> receipt, epoch |-> epoch, hit |-> hit, outcome |-> outcome]

\* one verification of the payment of tx_hash
VerifyPayment ==
    /\ pay_args # NoPayment
    /\ Len(pay_log) < MaxVerifications
    /\ LET hit == pay_memo # NoMemo
           outcome ==
               IF hit THEN pay_memo
               ELSE Network_verify_data_payment(pay_rpc, pay_receipt, pay_args.quote_hash,
                        pay_args.reward_addr, pay_args.amount,
                        pay_args.quote_expiration_timestamp_in_secs)
       IN /\ pay_log' = Append(pay_log,
                               Verification(pay_rpc, pay_receipt, pay_epoch, hit, outcome))
          /\ \E keep \in BOOLEAN :
               pay_memo' = IF hit THEN pay_memo ELSE MemoAfter(outcome, keep)
    /\ UNCHANGED <<pay_rpc, pay_receipt, pay_epoch, pay_args>>
    /\ UNCHANGED <<loopVars, netVars, proverVars, challengeVars, queryVars, otherVars>>

\* the RPC endpoint stops or starts answering
RpcChange ==
    /\ pay_args # NoPayment
    /\ pay_epoch < MaxChainChanges
    /\ pay_rpc' = IF pay_rpc = "up" THEN "down" ELSE "up"
    /\ pay_epoch' = pay_epoch + 1
    /\ UNCHANGED <<pay_receipt, pay_args, pay_memo, pay_log>>
    /\ UNCHANGED <<loopVars, netVars, proverVars, challengeVars, queryVars, otherVars>>

\* the transaction is included in a block
Mine ==
    /\ pay_args # NoPayment
    /\ pay_epoch < MaxChainChanges
    /\ pay_receipt = NoReceipt
    /\ pay_receipt' \in Receipts
    /\ pay_epoch' = pay_epoch + 1
    /\ UNCHANGED <<pay_rpc, pay_args, pay_memo, pay_log>>
    /\ UNCHANGED <<loopVars, netVars, proverVars, challengeVars, queryVars, otherVars>>

(***************************************************************************)
(* The PeerAdded arm run by handlings that share peers_connected           *)
(***************************************************************************)
MaxHandlers == 6

\* the PeerAdded event of the i-th handling
PeerAddedEvent(i) == NetworkEvent("PeerAdded", i, i, NoQuery, NoReason, <<>>, NoPut)

\* let _ = peers_connected.fetch_add(1, Ordering::SeqCst)
HandlerFetchAdd(i) ==
    /\ i \in DOMAIN h_pc
    /\ h_pc[i] = "fetch_add"
    /\ peers_connected' = fetch_add(peers_connected)
    /\ h_pc' = [h_pc EXCEPT ![i] = "load"]
    /\ UNCHANGED <<receiver, senderOpen, arrived, rt_peers, loop_pc, events_channel,
                   dispatched, tasks, ticks, responses, io_log>>
    /\ UNCHANGED <<netVars, dialVars, stored, metrics, tickerVars>>
    /\ UNCHANGED <<proverVars, challengeVars, queryVars, paymentVars>>
    /\ UNCHANGED <<progressVars, restartVars>>

\* if peers_connected.load(Ordering::SeqCst) == CLOSE_GROUP_SIZE { broadcast }, and
\* the rest of the arm
HandlerLoad(i) ==
    /\ i \in DOMAIN h_pc
    /\ h_pc[i] = "load"
    /\ events_channel' = events_channel \o Broadcasts(PeerAddedEvent(i), peers_connected)
    /\ metrics' = RecordAll(metrics, Markers(PeerAddedEvent(i)))
    /\ Spawn(Task("event", i, SpawnedKind(PeerAddedEvent(i)), NoQuery, <<>>, NoPut),
             responses)
    /\ h_pc' = [h_pc EXCEPT ![i] = "done"]
    /\ UNCHANGED <<receiver, senderOpen, arrived, rt_peers, loop_pc, peers_connected,
                   dispatched, ticks>>
    /\ UNCHANGED <<netVars, dialVars, stored, tickerVars>>
    /\ UNCHANGED <<proverVars, challengeVars, queryVars, paymentVars>>
    /\ UNCHANGED <<progressVars, restartVars>>

FetchAdd == \E i \in DOMAIN h_pc : HandlerFetchAdd(i)

Load == \E i \in DOMAIN h_pc : HandlerLoad(i)

\* no handling shares the counter with the loop
HandlersIdle == h_pc = <<>>

(***************************************************************************)
(* spawn_connection_progress_bar: the CLI task on the client's broadcast   *)
(***************************************************************************)
MaxBroadcasts == 7
ChannelCapacity == 2

\* the client, on each peer added: PeerAdded{max_peers_to_connect}, and
\* ConnectedToNetwork once CLOSE_GROUP_SIZE peers have been added, "during each new
\* connection"
PeersAdded == Cardinality({i \in DOMAIN b_sent : b_sent[i] = "PeerAdded"})

ClientPeerAdded ==
    /\ ~b_closed
    /\ PeersAdded < MaxBroadcasts
    /\ b_sent' = b_sent \o <<"PeerAdded">>
                    \o (IF PeersAdded + 1 >= CLOSE_GROUP_SIZE
                        THEN <<"ConnectedToNetwork">> ELSE <<>>)
    /\ UNCHANGED <<b_closed, rx_next, rx_pc, rx_lagged, progress_bar>>
    /\ UNCHANGED <<loopVars, netVars, proverVars, challengeVars, queryVars, paymentVars>>
    /\ UNCHANGED <<handlerVars, restartVars>>

\* the broadcaster is dropped
DropBroadcaster ==
    /\ ~b_closed
    /\ b_closed' = TRUE
    /\ UNCHANGED <<b_sent, rx_next, rx_pc, rx_lagged, progress_bar>>
    /\ UNCHANGED <<loopVars, netVars, proverVars, challengeVars, queryVars, paymentVars>>
    /\ UNCHANGED <<handlerVars, restartVars>>

\* the number of events the channel no longer retains
Overwritten ==
    IF Len(b_sent) > ChannelCapacity THEN Len(b_sent) - ChannelCapacity ELSE 0

\* rx.recv().await of a tokio broadcast receiver: Lagged when events the receiver has
\* not seen were overwritten, else the next event, else Closed, else it waits
recv ==
    IF rx_next < Overwritten THEN <<"Err", "Lagged">>
    ELSE IF rx_next < Len(b_sent) THEN <<"Ok", b_sent[rx_next + 1]>>
    ELSE IF b_closed THEN <<"Err", "Closed">>
    ELSE <<"Pending", "">>

\* where the receiver is after the call: a lagged receiver is moved to the oldest
\* event retained
NextAfter(received) ==
    CASE received = <<"Err", "Lagged">> -> Overwritten
      [] received[1] = "Ok" -> rx_next + 1
      [] OTHER -> rx_next

ProgressBar(message, found, finished) ==
    [message |-> message, found |-> found, finished |-> finished]

\* progress_bar.set_message("Connecting to The SAFE Network...")
Connecting == ProgressBar("Connecting to The SAFE Network...", 0, FALSE)

\* the arms of the match: what the progress bar shows afterwards
BarAfter(received, bar) ==
    CASE received = <<"Ok", "ConnectedToNetwork">> ->
             ProgressBar("Connected to the Network", bar.found, TRUE)
      [] received = <<"Ok", "PeerAdded">> ->
             ProgressBar("initial peers found.", bar.found + 1, FALSE)
      [] received = <<"Err", "Closed">> ->
             ProgressBar("Could not connect to the network", bar.found, TRUE)
      [] OTHER -> bar

\* the arms that end in `break`
AfterRecv_breakOnLagged(received) ==
    IF received \in {<<"Ok", "ConnectedToNetwork">>, <<"Err", "Closed">>,
                     <<"Err", "Lagged">>}
    THEN "done" ELSE "recv"
AfterRecv(received) ==
    IF received \in {<<"Ok", "ConnectedToNetwork">>, <<"Err", "Closed">>}
    THEN "done" ELSE "recv"

\* one iteration of the loop of the task
ProgressRecv ==
    /\ rx_pc = "recv"
    /\ recv[1] # "Pending"
    /\ rx_next' = NextAfter(recv)
    /\ rx_lagged' = IF recv = <<"Err", "Lagged">> THEN rx_lagged + 1 ELSE rx_lagged
    /\ progress_bar' = BarAfter(recv, progress_bar)
    /\ rx_pc' = AfterRecv(recv)
    /\ UNCHANGED <<b_sent, b_closed>>
    /\ UNCHANGED <<loopVars, netVars, proverVars, challengeVars, queryVars, paymentVars>>
    /\ UNCHANGED <<handlerVars, restartVars>>

\* the task is spawned and has received nothing
ProgressIdle ==
    /\ b_sent = <<>>
    /\ b_closed = FALSE
    /\ rx_next = 0
    /\ rx_pc = "recv"
    /\ rx_lagged = 0
    /\ progress_bar = Connecting

(***************************************************************************)
(* restart_node_service of the node manager                                *)
(***************************************************************************)
MaxNodes == 2

\* format!("safenode{number}")
ServiceName(number) == <<"safenode", number>>

\* the fields of NodeServiceData the function reads or sets apart from paths
NodeServiceData(number, service_name, peer_id, status) ==
    [number |-> number, service_name |-> service_name, peer_id |-> peer_id,
     status |-> status]

\* the peer ids of running nodes, and one that no node has
KnownPeerIds == 1..MaxNodes
PeerIds == 1..(MaxNodes + 1)

\* the registries the function is called on: node i was added as safenode{i}; it has a
\* peer id once it has run
Registries ==
    UNION {[1..n -> {None} \cup {Some(id) : id \in KnownPeerIds}] : n \in 0..MaxNodes}

AsNodes(peer_ids) ==
    [i \in DOMAIN peer_ids |->
        NodeServiceData(i, ServiceName(i), peer_ids[i],
                        IF peer_ids[i] = None THEN "Added" ELSE "Running")]

NoRestart == [peer_id |-> 0, retain_peer_id |-> FALSE]

\* .iter_mut().find(|node| node.peer_id.is_some_and(|id| id == peer_id)): the position
\* of the first node with the peer id, or 0
find_orFirst(nodes, peer_id) ==
    LET found == {i \in DOMAIN nodes : nodes[i].peer_id = Some(peer_id)}
    IN IF found = {} THEN (IF nodes = <<>> THEN 0 ELSE 1)
       ELSE CHOOSE i \in found : \A j \in found : i <= j
find(nodes, peer_id) ==
    LET found == {i \in DOMAIN nodes : nodes[i].peer_id = Some(peer_id)}
    IN IF found = {} THEN 0 ELSE CHOOSE i \in found : \A j \in found : i <= j

\* a fallible operation on a service or on the file system, and how it ended
Op(name, service, ok) == [op |-> name, service |-> service, ok |-> ok]

\* the operations of the retain_peer_id branch, after the stop, when none fails
RetainSteps(current_node) ==
    <<Op("uninstall", current_node.service_name, TRUE),
      Op("build", current_node.service_name, TRUE),
      Op("install", current_node.service_name, TRUE),
      Op("start", current_node.service_name, TRUE)>>

\* the operations of the else branch, after the stop, when none fails
NewNodeSteps_startFirst(current_node, new_service_name) ==
    <<Op("start", new_service_name, TRUE),
      Op("create_owned_dir", new_service_name, TRUE),
      Op("create_owned_dir", new_service_name, TRUE),
      Op("file_name", current_node.service_name, TRUE),
      Op("create_owned_dir", new_service_name, TRUE),
      Op("copy", new_service_name, TRUE),
      Op("build", new_service_name, TRUE),
      Op("install", new_service_name, TRUE)>>
NewNodeSteps(current_node, new_service_name) ==
    <<Op("create_owned_dir", new_service_name, TRUE),
      Op("create_owned_dir", new_service_name, TRUE),
      Op("file_name", current_node.service_name, TRUE),
      Op("create_owned_dir", new_service_name, TRUE),
      Op("copy", new_service_name, TRUE),
      Op("build", new_service_name, TRUE),
      Op("install", new_service_name, TRUE),
      Op("start", new_service_name, TRUE)>>

\* all the operations of a call that finds current_node, when none fails
Steps(current_node, retain_peer_id, nodes_len) ==
    <<Op("stop", current_node.service_name, TRUE)>>
        \o (IF retain_peer_id THEN RetainSteps(current_node)
            ELSE NewNodeSteps(current_node, ServiceName(nodes_len + 1)))
        \o <<Op("save", <<"registry", 0>>, TRUE)>>

\* the operations performed when the one at position failed returns Err (0: none does)
Performed(steps, failed) ==
    IF failed = 0 THEN steps
    ELSE [i \in 1..failed |-> IF i = failed THEN [steps[i] EXCEPT !.ok = FALSE] ELSE steps[i]]

\* the NodeServiceData built for the new node
NewNode(nodes_len) ==
    NodeServiceData(nodes_len + 1, ServiceName(nodes_len + 1), None, "Added")

\* service_manager.service.service_data after start(): the manager is given the
\* service by &mut, and leaves its data as built or notes the started process in it
ServiceDataAfterStart(node) ==
    {node, [node EXCEPT !.peer_id = Some(MaxNodes + 1), !.status = "Running"]}

\* node_registry.nodes after the call: the else branch pushes once start returned Ok
NodesAfter(nodes, retain_peer_id, started, pushed) ==
    IF ~retain_peer_id /\ started THEN Append(nodes, pushed) ELSE nodes

RestartNodeService ==
    /\ r_result = "none"
    /\ r_args # NoRestart
    /\ LET at == find(r_registry, r_args.peer_id)
           nodes_len == Len(r_registry)
       IN IF at = 0
          THEN /\ r_result' = "Err"
               /\ UNCHANGED <<r_registry, r_saved, r_ops>>
          ELSE LET steps == Steps(r_registry[at], r_args.retain_peer_id, nodes_len) IN
                 \E failed \in 0..Len(steps), pushed \in ServiceDataAfterStart(NewNode(nodes_len)) :
                    /\ r_ops' = Performed(steps, failed)
                    /\ r_registry' =
                           NodesAfter(r_registry, r_args.retain_peer_id,
                                      failed = 0 \/ failed = Len(steps), pushed)
                    /\ r_saved' = IF failed = 0 THEN r_registry' ELSE r_saved
                    /\ r_result' = IF failed = 0 THEN "Ok" ELSE "Err"
    /\ UNCHANGED r_args
    /\ UNCHANGED <<loopVars, netVars, proverVars, challengeVars, queryVars, paymentVars>>
    /\ UNCHANGED <<handlerVars, progressVars>>

\* restart_node_service has not been called
RestartIdle ==
    /\ r_registry = <<>>
    /\ r_saved = <<>>
    /\ r_args = NoRestart
    /\ r_ops = <<>>
    /\ r_result = "none"

\* nothing beside the node runs
OthersIdle == HandlersIdle /\ ProgressIdle /\ RestartIdle


(***************************************************************************)
(* Specifications                                                          *)
(***************************************************************************)
\* the state Node::run starts the select loop in
\* the event loop before its first iteration
EventLoopStart ==
    /\ receiver = <<>>
    /\ senderOpen = TRUE
    /\ arrived = 0
    /\ rt_peers = 0
    /\ loop_pc = "running"
    /\ peers_connected = 0
    /\ events_channel = <<>>
    /\ dispatched = <<>>
    /\ tasks = {}
    /\ ticks = 0
    /\ responses = <<>>
    /\ io_log = {}
    /\ replications = <<>>
    /\ node_issues = <<>>
    /\ dial_log = <<>>
    /\ stored = {}
    /\ metrics = <<>>
    /\ now = 0
    /\ delays = 0
    /\ tickers = [name \in TickerSet |-> NoTicker]

\* no query is being handled
QueryIdle ==
    /\ q_query = NoQueryHandled
    /\ q_calls = <<>>
    /\ q_response = NoResponse

\* no payment is being verified
PaymentIdle ==
    /\ pay_rpc = "up"
    /\ pay_receipt = NoReceipt
    /\ pay_epoch = 0
    /\ pay_args = NoPayment
    /\ pay_memo = NoMemo
    /\ pay_log = <<>>

LoopStart == EventLoopStart /\ QueryIdle /\ PaymentIdle /\ OthersIdle

\* the default build, with two initial peers that can be dialled
DefaultBuild ==
    /\ feature_local = FALSE
    /\ initial_peers = <<1, 2>>
    /\ unreachable = {}

LoopInit == LoopStart /\ DefaultBuild /\ t_pc = InLoop

\* no storage challenge is being answered
ProverIdle ==
    /\ p_store = <<>>
    /\ p_key = 0
    /\ p_nonce = 0
    /\ p_difficulty = 0
    /\ p_pc = "idle"
    /\ p_addrs = <<>>
    /\ p_results = <<>>
    /\ p_lookups = <<>>
    /\ p_errors = 0

\* no storage challenge is being made
ChallengeIdle ==
    /\ c_caller = "none"
    /\ c_pc = "idle"
    /\ c_closest = <<>>
    /\ c_todo = <<>>
    /\ c_candidates = <<>>
    /\ c_peer = 0
    /\ c_key = 0
    /\ c_nonce = 0
    /\ c_reply = NoReply
    /\ c_checked = <<>>
    /\ c_requests = <<>>

Init == LoopInit /\ ProverIdle /\ ChallengeIdle

\* the node with every kind of network event and the four tickers
Next ==
    \/ SendEvent
    \/ CloseChannel
    \/ LoopRecvSome
    \/ LoopRecvNone
    \/ ReplicationTick
    \/ UptimeMetricsTick
    \/ IrrelevantRecordsCleanupTick
    \/ StorageChallengeTick
    \/ RunTask

Spec == Init /\ [][Next]_vars

\* the node under a longer run of routing-table events
NextPeers ==
    \/ SendPeerEvent
    \/ CloseChannel
    \/ LoopRecvSome
    \/ LoopRecvNone
    \/ RunTask

SpecPeers == Init /\ [][NextPeers]_vars

\* the node under queries; the runtime runs every spawned task and the loop
NextQuery ==
    \/ SendQueryEvent
    \/ CloseChannel
    \/ LoopRecvSome
    \/ LoopRecvNone
    \/ RunTask

FairSpecQuery ==
    Init /\ [][NextQuery]_vars /\ WF_vars(LoopRecvSome) /\ WF_vars(RunTask)

\* the node under routing-table changes, replication failures and the replication
\* ticker; the runtime runs every spawned task and the loop
NextReplication ==
    \/ SendReplicationEvent
    \/ CloseChannel
    \/ LoopRecvSome
    \/ LoopRecvNone
    \/ ReplicationTick
    \/ RunTask

FairSpecReplication ==
    Init /\ [][NextReplication]_vars /\ WF_vars(LoopRecvSome) /\ WF_vars(RunTask)

\* the node of either build, with any configured initial peers, some of which cannot
\* be dialled, under NewListenAddr events and a termination request
PeerConfigs == SeqsUpTo(1..MaxInitialPeers, MaxInitialPeers)

InitDial ==
    /\ LoopStart
    /\ feature_local \in BOOLEAN
    /\ initial_peers \in PeerConfigs
    /\ unreachable \in SUBSET {initial_peers[i] : i \in DOMAIN initial_peers}
    /\ t_pc = InLoop
    /\ ProverIdle
    /\ ChallengeIdle

SendDialEvent == Send({"NewListenAddr", "TerminateNode"}, {}, {}, {}, MaxEvents)

NextDial ==
    \/ SendDialEvent
    \/ CloseChannel
    \/ LoopRecvSome
    \/ LoopRecvNone
    \/ RunTask

FairSpecDial ==
    InitDial /\ [][NextDial]_vars /\ WF_vars(LoopRecvSome) /\ WF_vars(RunTask)

\* Node::run from its first statement, with the clock: the tickers are created and
\* their first ticks awaited before the loop, which runs until the channel is closed
InitTickers ==
    /\ LoopStart
    /\ DefaultBuild
    /\ t_pc = At("interval", 1)
    /\ ProverIdle
    /\ ChallengeIdle

NextTickers ==
    \/ CreateTicker
    \/ AwaitFirstTick
    \/ Advance
    \/ CloseChannel
    \/ TimedRecvNone
    \/ TimedReplicationTick
    \/ TimedUptimeMetricsTick
    \/ TimedIrrelevantRecordsCleanupTick
    \/ TimedStorageChallengeTick
    \/ RunTask

SpecTickers == InitTickers /\ [][NextTickers]_vars

\* handle_query is called with a query of one of the four variants, on a node whose
\* store holds any chunks and at most MaxNonChunk other records
InitQueryHandler ==
    /\ EventLoopStart
    /\ OthersIdle
    /\ DefaultBuild
    /\ t_pc = InLoop
    /\ PaymentIdle
    /\ ChallengeIdle
    /\ \E chunks \in SUBSET (0..MaxKey) :
         \E others \in {o \in SUBSET ((0..MaxKey) \ chunks) : Cardinality(o) <= MaxNonChunk} :
            p_store = RecordStore(chunks, others)
    /\ p_key = 0
    /\ p_nonce = 0
    /\ p_difficulty = 0
    /\ p_pc = "idle"
    /\ p_addrs = <<>>
    /\ p_results = <<>>
    /\ p_lookups = <<>>
    /\ p_errors = 0
    /\ q_query \in Queries
    /\ q_calls = <<>>
    /\ q_response = NoResponse

NextQueryHandler ==
    \/ HandleGetStoreCost
    \/ HandleGetRecord
    \/ HandleCheckNodeInProblem

SpecQueryHandler == InitQueryHandler /\ [][NextQueryHandler]_vars

\* a payment of 1000 to R for the quote Q is verified, up to MaxVerifications times,
\* while the RPC endpoint and the chain change
InitPayment ==
    /\ EventLoopStart
    /\ OthersIdle
    /\ DefaultBuild
    /\ t_pc = InLoop
    /\ QueryIdle
    /\ ProverIdle
    /\ ChallengeIdle
    /\ pay_rpc \in {"up", "down"}
    /\ pay_receipt \in {NoReceipt} \cup Receipts
    /\ pay_epoch = 0
    /\ pay_args \in {PaymentArgs("Q", "R", 1000, expiration) : expiration \in Expirations}
    /\ pay_memo = NoMemo
    /\ pay_log = <<>>

NextPayment ==
    \/ VerifyPayment
    \/ RpcChange
    \/ Mine

SpecPayment == InitPayment /\ [][NextPayment]_vars

\* the node under puts of records that pass or fail validation, and replication
\* failures that name peers
SendPutEvent ==
    Send({"UnverifiedRecord", "FailedToFetchHolders"}, {}, {<<1>>},
         ValidPuts \cup InvalidPuts, MaxEvents)

NextPut ==
    \/ SendPutEvent
    \/ CloseChannel
    \/ LoopRecvSome
    \/ LoopRecvNone
    \/ RunTask

SpecPut == Init /\ [][NextPut]_vars

\* the node with two initial peers, any of which may be unreachable, under events
\* whose handlers can fail: dials, puts that fail validation, replication failures
\* and challenges of a peer
InitFailures ==
    /\ LoopStart
    /\ feature_local = FALSE
    /\ initial_peers = <<1, 2>>
    /\ unreachable \in SUBSET {1, 2}
    /\ t_pc = InLoop
    /\ ProverIdle
    /\ ChallengeIdle

SendFailureEvent ==
    Send({"NewListenAddr", "UnverifiedRecord", "FailedToFetchHolders",
          "ChunkProofVerification"}, {}, {<<1>>},
         {PutRecord(0, err) : err \in PutErrors}, MaxEvents)

NextFailures ==
    \/ SendFailureEvent
    \/ CloseChannel
    \/ LoopRecvSome
    \/ LoopRecvNone
    \/ ReplicationTick
    \/ RunTask

SpecFailures == InitFailures /\ [][NextFailures]_vars

\* the node and its queries, payments, prover and verifier at rest
NodeAtRest ==
    /\ EventLoopStart
    /\ QueryIdle
    /\ PaymentIdle
    /\ DefaultBuild
    /\ t_pc = InLoop
    /\ ProverIdle
    /\ ChallengeIdle

\* N >= CLOSE_GROUP_SIZE handlings of PeerAdded share the counter, at zero
InitHandlers ==
    /\ NodeAtRest
    /\ ProgressIdle
    /\ RestartIdle
    /\ \E n \in CLOSE_GROUP_SIZE..MaxHandlers : h_pc = [i \in 1..n |-> "fetch_add"]

NextHandlers ==
    \/ FetchAdd
    \/ Load

SpecHandlers == InitHandlers /\ [][NextHandlers]_vars

\* the CLI connecting: the task has subscribed before the client is built
InitProgress ==
    /\ NodeAtRest
    /\ HandlersIdle
    /\ RestartIdle
    /\ ProgressIdle

NextProgress ==
    \/ ClientPeerAdded
    \/ DropBroadcaster
    \/ ProgressRecv

\* the runtime keeps running the spawned task
FairSpecProgress == InitProgress /\ [][NextProgress]_vars /\ WF_vars(ProgressRecv)

\* restart_node_service called on a registry, with a peer id and a choice
InitRestart ==
    /\ NodeAtRest
    /\ HandlersIdle
    /\ ProgressIdle
    /\ \E peer_ids \in Registries : r_registry = AsNodes(peer_ids)
    /\ r_saved = r_registry
    /\ r_args \in [peer_id : PeerIds, retain_peer_id : BOOLEAN]
    /\ r_ops = <<>>
    /\ r_result = "none"

NextRestart == RestartNodeService

SpecRestart == InitRestart /\ [][NextRestart]_vars

\* a GetChunkExistenceProof{key, nonce, difficulty} query arrives at a node whose
\* store holds any records within the bounds
InitProver ==
    /\ LoopInit
    /\ ChallengeIdle
    /\ \E chunks \in SUBSET Addrs :
         \E others \in {o \in SUBSET (Addrs \ chunks) : Cardinality(o) <= MaxNonChunk} :
            p_store = RecordStore(chunks, others)
    /\ p_key \in 0..MaxKey
    /\ p_nonce \in Nonces
    /\ p_difficulty \in 0..MaxDifficulty
    /\ p_pc = "start"
    /\ p_addrs = <<>>
    /\ p_results = <<>>
    /\ p_lookups = <<>>
    /\ p_errors = 0

NextProver ==
    \/ ProverSingle
    \/ ProverEnumerate
    \/ ProverProve

SpecProver == InitProver /\ [][NextProver]_vars

\* the numbers of Chunk records the node may hold
ChunkCounts == {0, MinVerifyCandidates - 1, MinVerifyCandidates}

\* the storage-challenge ticker fired and its task runs storage_challenge, or a
\* ChunkProofVerification{peer_id, key_to_verify} event was dispatched and its task
\* runs chunk_proof_verify_peer; the store holds n chunks and m other records
InitChallenge ==
    /\ LoopInit
    /\ \E n \in ChunkCounts, m \in 0..MaxNonChunk :
         p_store = RecordStore(0..(n - 1), n..(n + m - 1))
    /\ p_key = 0
    /\ p_nonce = 0
    /\ p_difficulty = 0
    /\ p_pc = "idle"
    /\ p_addrs = <<>>
    /\ p_results = <<>>
    /\ p_lookups = <<>>
    /\ p_errors = 0
    /\ c_caller \in {"storage_challenge", "ChunkProofVerification"}
    /\ c_pc = IF c_caller = "storage_challenge" THEN "closest_peers" ELSE "request"
    /\ c_closest = <<>>
    /\ c_todo = <<>>
    /\ c_candidates = <<>>
    /\ c_peer \in (IF c_caller = "storage_challenge" THEN {0} ELSE {1, 2})
    /\ c_key \in (IF c_caller = "storage_challenge" THEN {0} ELSE {0, UnheldAddr})
    /\ c_nonce = 0
    /\ c_reply = NoReply
    /\ c_checked = <<>>
    /\ c_requests = <<>>

NextChallenge ==
    \/ ChallengeClosest
    \/ ChallengeCandidates
    \/ ChallengeNextPeer
    \/ VerifyRequest
    \/ VerifyAnswer

SpecChallenge == InitChallenge /\ [][NextChallenge]_vars

\* a ChunkProofVerification{peer_id, key_to_verify} event was dispatched and its task
\* runs chunk_proof_verify_peer; the peer answers with the prover procedure; the
\* store holds n chunks and m other records
InitHonest ==
    /\ LoopInit
    /\ \E n \in 0..MaxAddr, m \in 0..MaxNonChunk :
         p_store = RecordStore(0..(n - 1), n..(n + m - 1))
    /\ p_key = 0
    /\ p_nonce = 0
    /\ p_difficulty = 0
    /\ p_pc = "idle"
    /\ p_addrs = <<>>
    /\ p_results = <<>>
    /\ p_lookups = <<>>
    /\ p_errors = 0
    /\ c_caller = "ChunkProofVerification"
    /\ c_pc = "request"
    /\ c_closest = <<>>
    /\ c_todo = <<>>
    /\ c_candidates = <<>>
    /\ c_peer \in {1, 2}
    /\ c_key \in {0, UnheldAddr}
    /\ c_nonce = 0
    /\ c_reply = NoReply
    /\ c_checked = <<>>
    /\ c_requests = <<>>

NextHonest ==
    \/ SendToProver
    \/ ProverEnumerate
    \/ ProverProve
    \/ ProverAnswerReceived
    \/ VerifyAnswer

SpecHonest == InitHonest /\ [][NextHonest]_vars

(***************************************************************************)
(* Properties of the event loop                                            *)
(***************************************************************************)
\* positions of the lifecycle event `name` in the broadcast order
Broadcast(name) ==
    {i \in DOMAIN events_channel : events_channel[i].event = name}

\* arrival numbers of the events during whose handling `name` was broadcast
CausesOf(name) == {events_channel[i].cause : i \in Broadcast(name)}

\* positions of the dispatched events of type t
Dispatched(t) == {i \in DOMAIN dispatched : dispatched[i].type = t}

\* the arrival number of the n-th dispatched event of type t, as a set
NthDispatched(t, n) ==
    {dispatched[i].seq : i \in {j \in Dispatched(t) :
                                   Cardinality({k \in Dispatched(t) : k <= j}) = n}}

\* C1: over any sequence of network events handled in one node run,
\* ConnectedToNetwork is broadcast at most once.
C1_ConnectedAtMostOnce == Cardinality(Broadcast("ConnectedToNetwork")) <= 1

C1_Witness ==
    /\ Cardinality(Broadcast("ConnectedToNetwork")) = 1
    /\ Cardinality(Dispatched("PeerAdded")) > CLOSE_GROUP_SIZE
    /\ Dispatched("PeerRemoved") # {}

OnlyPeerAddedFed == \A i \in DOMAIN dispatched : dispatched[i].type = "PeerAdded"

\* C2: when only PeerAdded events are fed, ConnectedToNetwork is broadcast while the
\* CLOSE_GROUP_SIZE-th one is handled: not for an earlier one, and not again later.
C2_FiresOnFifthPeerAdded ==
    OnlyPeerAddedFed =>
        /\ CausesOf("ConnectedToNetwork") =
               IF Len(dispatched) >= CLOSE_GROUP_SIZE
               THEN {dispatched[CLOSE_GROUP_SIZE].seq}
               ELSE {}
        /\ Cardinality(Broadcast("ConnectedToNetwork")) =
               IF Len(dispatched) >= CLOSE_GROUP_SIZE THEN 1 ELSE 0

C2_Witness ==
    /\ OnlyPeerAddedFed
    /\ Len(dispatched) > CLOSE_GROUP_SIZE
    /\ Cardinality(Broadcast("ConnectedToNetwork")) = 1

\* C3 as stated: ConnectedToNetwork is broadcast exactly when the peer count carried by
\* the event (peers added minus peers removed) goes from CLOSE_GROUP_SIZE-1 to
\* CLOSE_GROUP_SIZE, and not while that count is below CLOSE_GROUP_SIZE.
C3_Original_FiresOnCarriedCount ==
    /\ \A i \in Broadcast("ConnectedToNetwork") :
           events_channel[i].count = CLOSE_GROUP_SIZE
    /\ \A j \in Dispatched("PeerAdded") :
           dispatched[j].count = CLOSE_GROUP_SIZE
               => Broadcast("ConnectedToNetwork") # {}

\* C3 as amended: ConnectedToNetwork is broadcast exactly while the CLOSE_GROUP_SIZE-th
\* PeerAdded event of the run is handled, whatever PeerRemoved events are interleaved
\* and whatever count the event carries; not while fewer PeerAdded events were handled.
C3_FiresOnFifthPeerAddedHandled ==
    /\ CausesOf("ConnectedToNetwork") = NthDispatched("PeerAdded", CLOSE_GROUP_SIZE)
    /\ Cardinality(Broadcast("ConnectedToNetwork")) =
           Cardinality(NthDispatched("PeerAdded", CLOSE_GROUP_SIZE))

C3_Witness ==
    \E i \in Broadcast("ConnectedToNetwork") :
        /\ events_channel[i].count < CLOSE_GROUP_SIZE
        /\ \E j \in Dispatched("PeerRemoved") : dispatched[j].seq < events_channel[i].cause

\* the last lifecycle event broadcast is `name`
LastBroadcastIs(name) ==
    /\ events_channel # <<>>
    /\ events_channel[Len(events_channel)].event = name

\* C4: when the receiver is closed the loop broadcasts ChannelClosed exactly once and
\* exits; from then on it handles no network event, starts no ticker action and
\* broadcasts no lifecycle event.
C4_ChannelClosedExitsLoop ==
    /\ [](/\ Cardinality(Broadcast("ChannelClosed")) <= 1
          /\ loop_pc = "exited" <=> Broadcast("ChannelClosed") # {}
          /\ loop_pc = "exited" => LastBroadcastIs("ChannelClosed")
          /\ Broadcast("ChannelClosed") # {} => ~senderOpen /\ receiver = <<>>)
    /\ [][loop_pc = "exited" =>
              /\ UNCHANGED <<loop_pc, dispatched, receiver, ticks, events_channel>>
              /\ tasks' \subseteq tasks]_vars

C4_Witness ==
    /\ loop_pc = "exited"
    /\ dispatched # <<>>
    /\ ticks > 0
    /\ tasks # {}

\* the step is a call of handle_network_event with an event of type t
Handles(t) ==
    /\ Len(dispatched') = Len(dispatched) + 1
    /\ dispatched'[Len(dispatched')].type = t

\* C5: handling TerminateNode{reason} broadcasts TerminateNode(reason) once and does
\* not exit the loop, which is left only when the receiver is closed and drained, so
\* later events and ticks are still handled.
C5_TerminateNodeKeepsLooping ==
    /\ [][Handles("TerminateNode") =>
              /\ events_channel' =
                     Append(events_channel,
                            NodeEvent("TerminateNode",
                                      DebugFormat(dispatched'[Len(dispatched')].reason),
                                      dispatched'[Len(dispatched')].seq, 0))
              /\ loop_pc' = "running"]_vars
    /\ [](loop_pc = "exited" => ~senderOpen /\ receiver = <<>>)
    /\ [](loop_pc = "running" /\ receiver # <<>> => ENABLED LoopRecvSome)

C5_Witness ==
    \E i \in Broadcast("TerminateNode") :
        /\ Len(dispatched) > events_channel[i].cause
        /\ loop_pc = "running"
        /\ ticks > 0

\* C6: events are dispatched in arrival order, one at a time, and the lifecycle
\* broadcasts appear in the order of the events that caused them, each before the next
\* event is dispatched; the spawned tasks may complete in any order.
C6_DispatchInArrivalOrder ==
    /\ \A i \in DOMAIN dispatched : dispatched[i].seq = i
    /\ \A i \in DOMAIN receiver : receiver[i].seq = Len(dispatched) + i
    /\ \A i, j \in DOMAIN events_channel :
           (i < j /\ events_channel[j].event # "ChannelClosed")
               => events_channel[i].cause < events_channel[j].cause
    /\ \A k \in Dispatched("TerminateNode") : dispatched[k].seq \in CausesOf("TerminateNode")

C6_Witness ==
    /\ Len(dispatched) >= 2
    /\ Cardinality(Broadcast("TerminateNode")) >= 2
    /\ LastBroadcastIs("TerminateNode")

\* C7: handling a network event awaits nothing on the event-loop task: every awaited
\* operation runs in a spawned task, and the loop can dispatch the next event while
\* earlier handler tasks are still pending.
C7_DispatcherNeverAwaits ==
    /\ \A x \in io_log : x[2] = "task"
    /\ (loop_pc = "running" /\ receiver # <<>>) => ENABLED LoopRecvSome

C7_Witness ==
    /\ Cardinality({t \in tasks : AwaitedOps(t.kind) # {}}) >= 2
    /\ Len(dispatched) >= 2
    /\ loop_pc = "running"

\* the QueryRequestReceived events dispatched so far, by their response channel
QueryOf(ch) == {dispatched[i].query : i \in {j \in DOMAIN dispatched :
                    dispatched[j].seq = ch /\ dispatched[j].type = "QueryRequestReceived"}}

C8_Safety ==
    \A ch \in DOMAIN responses :
        /\ Len(responses[ch]) <= 1
        /\ \A k \in DOMAIN responses[ch] :
               responses[ch][k] \in {handle_query(q) : q \in QueryOf(ch)}

\* C8: every QueryRequestReceived{query, channel} handled is eventually answered exactly
\* once, on its own channel, with handle_query of its own query, whatever the order in
\* which concurrently running query tasks complete.
C8_EveryQueryAnsweredOnce ==
    /\ []C8_Safety
    /\ \A ch \in 1..MaxEvents :
           (ch \in DOMAIN responses) ~> (ch \in DOMAIN responses /\ Len(responses[ch]) = 1)

\* the second query is answered, once and with its own response, while the task of
\* the first, a different query, has not completed
C8_Witness ==
    /\ {1, 2} \subseteq DOMAIN responses
    /\ responses[1] = <<>>
    /\ \E q \in QueryOf(2) : responses[2] = <<handle_query(q)>> /\ q \notin QueryOf(1)

(***************************************************************************)
(* Properties of the storage-challenge prover                              *)
(***************************************************************************)
\* the calls of the run that returned Err
FailedCalls == {i \in DOMAIN p_lookups : p_lookups[i].outcome = "err"}

\* C9: for difficulty = 1 the prover returns exactly one element, for the address key:
\* Ok(ChunkProof::new(value, nonce)) when the local lookup returns a record for key,
\* Err(ChunkDoesNotExist(key)) otherwise.
C9_DifficultyOneSingleAnswer ==
    (p_pc = "done" /\ p_difficulty = 1) =>
        /\ Len(p_results) = 1
        /\ p_results[1].addr = p_key
        /\ p_results[1].proof =
               IF p_key \in DOMAIN p_store /\ FailedCalls = {}
               THEN Ok(ChunkProof(Content(p_key), p_nonce))
               ELSE Err(ChunkDoesNotExist(p_key))

C9_Witness ==
    /\ p_pc = "done"
    /\ p_difficulty = 1
    /\ p_nonce = 7
    /\ p_key \in DOMAIN p_store
    /\ p_results = <<Answer(p_key, <<"Ok", <<"ChunkProof", 7, Content(p_key)>>>>)>>

C9_WitnessNotHeld ==
    /\ p_pc = "done"
    /\ p_difficulty = 1
    /\ p_key \notin DOMAIN p_store
    /\ p_results = <<Answer(p_key, <<"Err", <<"ChunkDoesNotExist", p_key>>>>)>>

\* the local chunk addresses
LocalChunks == {a \in DOMAIN p_store : p_store[a].rtype = "Chunk"}

AnswerAddrs == {p_results[i].addr : i \in DOMAIN p_results}

\* C10: for difficulty # 1, when the chunk addresses S are enumerated and every one
\* visited is read, the answer is the first min(difficulty, |S|, CLOSE_GROUP_SIZE)
\* elements of S in ascending distance to the key, each with the proof of its value
\* under the nonce.
C10_ClosestPrefixWithProofs ==
    (p_pc = "done" /\ p_difficulty # 1 /\ FailedCalls = {}) =>
        /\ Len(p_results) =
               Min(p_difficulty, Min(Cardinality(LocalChunks), CLOSE_GROUP_SIZE))
        /\ \A i \in DOMAIN p_results :
               /\ p_results[i].addr \in LocalChunks
               /\ p_results[i].proof = Ok(ChunkProof(Content(p_results[i].addr), p_nonce))
        /\ \A i, j \in DOMAIN p_results :
               i < j => distance(p_key, p_results[i].addr)
                            < distance(p_key, p_results[j].addr)
        /\ \A a \in LocalChunks \ AnswerAddrs :
               \A i \in DOMAIN p_results :
                   distance(p_key, p_results[i].addr) < distance(p_key, a)

C10_Witness ==
    /\ p_pc = "done"
    /\ p_difficulty > CLOSE_GROUP_SIZE
    /\ Cardinality(LocalChunks) > CLOSE_GROUP_SIZE
    /\ DOMAIN p_store # LocalChunks
    /\ FailedCalls = {}
    /\ Len(p_results) = CLOSE_GROUP_SIZE
    /\ \E i \in DOMAIN p_results : i + 1 \in DOMAIN p_results
                                   /\ p_results[i].addr > p_results[i + 1].addr

\* C11: the answer list is ordered by non-decreasing distance to the key, two addresses
\* at equal distance in the order of their address bytes, whatever the order in which
\* the record store enumerated the addresses.
C11_OrderedByDistanceThenAddress ==
    \A i, j \in DOMAIN p_results :
        i < j =>
            \/ distance(p_key, p_results[i].addr) < distance(p_key, p_results[j].addr)
            \/ /\ distance(p_key, p_results[i].addr) = distance(p_key, p_results[j].addr)
               /\ p_results[i].addr < p_results[j].addr

\* an answer that follows neither of the enumeration orders of the store
C11_Witness ==
    /\ p_pc = "done"
    /\ Len(p_results) >= 3
    /\ \E i \in DOMAIN p_results : i + 1 \in DOMAIN p_results
                                   /\ p_results[i].addr > p_results[i + 1].addr
    /\ \E i \in DOMAIN p_results : i + 1 \in DOMAIN p_results
                                   /\ p_results[i].addr < p_results[i + 1].addr

\* C12: for every difficulty, every answer that carries a proof is for an address whose
\* local record type is Chunk.
C12_OnlyChunksYieldProofs ==
    \A i \in DOMAIN p_results :
        p_results[i].proof[1] = "Ok" => p_results[i].addr \in LocalChunks

\* the calls of get_local_record of the run, in order
RecordLookups == SelectSeq(p_lookups, LAMBDA c : c.call = "get_local_record")

\* those that returned a record
RecordsRead == SelectSeq(RecordLookups, LAMBDA c : c.outcome = "some")

\* C13: for difficulty # 1, an enumerated chunk address whose record is not read at
\* proof time is omitted: the answers are the addresses read, in the order visited,
\* each with the Ok proof of the record held under the nonce, in distance order.
C13_UnreadAddressesOmitted ==
    (p_pc = "done" /\ p_difficulty # 1) =>
        /\ p_results =
               [i \in DOMAIN RecordsRead |->
                   Answer(RecordsRead[i].addr,
                          Ok(ChunkProof(Content(RecordsRead[i].addr), p_nonce)))]
        /\ \A i \in DOMAIN RecordsRead : RecordsRead[i].addr \in DOMAIN p_store
        /\ \A k \in DOMAIN RecordLookups :
               RecordLookups[k].outcome # "some" => RecordLookups[k].addr \notin AnswerAddrs
        /\ \A i, j \in DOMAIN p_results :
               i < j => distance(p_key, p_results[i].addr)
                            < distance(p_key, p_results[j].addr)

\* the second of three addresses visited is not read
C13_Witness ==
    /\ p_pc = "done"
    /\ p_difficulty # 1
    /\ Len(RecordLookups) >= 3
    /\ RecordLookups[1].outcome = "some"
    /\ RecordLookups[2].outcome = "err"
    /\ RecordLookups[3].outcome = "some"
    /\ Len(p_results) = Len(RecordLookups) - 1

(***************************************************************************)
(* Properties of the storage-challenge verifier                            *)
(***************************************************************************)
\* the step in which chunk_proof_verify_peer returns to its caller
VerifyReturns == c_pc \in {"request", "answers"} /\ c_pc' \in {"for", "done"}

\* the issues with `key` recorded once more
RecordedOnceMore(issues, key) ==
    [k \in DOMAIN issues \cup {key} |->
        (IF k \in DOMAIN issues THEN issues[k] ELSE 0) + (IF k = key THEN 1 ELSE 0)]

\* the proof the verifier computes from its own copy of the answer's address
ExpectedProof(answer, nonce) == Ok(ChunkProof(Content(answer.addr), nonce))

\* the answers visited whose Ok proof was compared with the verifier's and differs
Mismatches(reply, checked, nonce) ==
    {i \in DOMAIN checked : /\ checked[i] = "some"
                            /\ reply.answers[i].proof # ExpectedProof(reply.answers[i], nonce)}

\* the answers with an Ok proof for an address held that differs from the verifier's
HeldMismatches(reply, nonce) ==
    {i \in DOMAIN reply.answers :
        /\ reply.answers[i].proof[1] = "Ok"
        /\ reply.answers[i].addr \in DOMAIN p_store
        /\ reply.answers[i].proof # ExpectedProof(reply.answers[i], nonce)}

\* C14: a challenge of peer P records FailedChunkProofCheck against P, and against no
\* other peer, when the request timed out or failed, the response is not a
\* GetChunkExistenceProof response, the answer list is empty, or an answer's proof
\* differs from the one recomputed from the local copy under the same nonce; and
\* records nothing otherwise.
C14_IssueExactlyOnFailure ==
    [][VerifyReturns =>
          LET fails ==
                  \/ c_reply'.kind \in {"absent", "error", "other_response"}
                  \/ c_reply'.answers = <<>>
                  \/ Mismatches(c_reply', c_checked', c_nonce') # {}
          IN /\ node_issues' =
                    IF fails
                    THEN RecordedOnceMore(node_issues, <<c_peer, "FailedChunkProofCheck">>)
                    ELSE node_issues
             /\ p_errors' = 0 =>
                    Mismatches(c_reply', c_checked', c_nonce')
                        = HeldMismatches(c_reply', c_nonce') \cap DOMAIN c_checked'
             /\ ~fails => Len(c_checked') = Len(c_reply'.answers)]_vars

\* of the neighbours challenged, the second alone failed; the last one answered with
\* the proof expected
C14_Witness ==
    /\ c_caller = "storage_challenge"
    /\ c_pc = "for"
    /\ c_todo = <<>>
    /\ Len(c_requests) >= CLOSE_GROUP_SIZE - 1
    /\ DOMAIN node_issues = {<<2, "FailedChunkProofCheck">>}
    /\ c_reply.kind = "answers"
    /\ c_checked = <<"some">>

ClosestPeersFailed ==
    \E i \in DOMAIN p_lookups : /\ p_lookups[i].call = "get_closest_k_value_local_peers"
                                /\ p_lookups[i].outcome = "err"

ChallengeSkipped ==
    /\ c_requests = <<>>
    /\ DOMAIN node_issues = {}
    /\ c_pc = "done"

\* C16: a storage challenge that finds fewer than CLOSE_GROUP_SIZE closest peers, or
\* cannot obtain them, sends no request and records no issue.
C16_SkippedWithoutNeighbours ==
    (/\ c_caller = "storage_challenge"
     /\ c_pc # "closest_peers"
     /\ ClosestPeersFailed \/ Len(c_closest) < CLOSE_GROUP_SIZE) => ChallengeSkipped

C16_Witness ==
    /\ c_caller = "storage_challenge"
    /\ c_pc = "done"
    /\ ~ClosestPeersFailed
    /\ Len(c_closest) = CLOSE_GROUP_SIZE - 1
    /\ Cardinality(LocalChunks) >= MinVerifyCandidates

\* C17: a storage challenge on a node holding fewer than 50 Chunk records sends no
\* request and records no issue, whatever the number of neighbours; records of other
\* types do not count.
C17_SkippedBelowFiftyChunks ==
    (c_caller = "storage_challenge" /\ Cardinality(LocalChunks) < MinVerifyCandidates) =>
        /\ c_requests = <<>>
        /\ DOMAIN node_issues = {}
        /\ c_pc \in {"closest_peers", "candidates", "done"}

C17_Witness ==
    /\ c_caller = "storage_challenge"
    /\ c_pc = "done"
    /\ Len(c_closest) = CLOSE_GROUP_SIZE
    /\ Len(c_candidates) = MinVerifyCandidates - 1
    /\ Cardinality(DOMAIN p_store) >= MinVerifyCandidates

\* the neighbours of closest_peers other than the node itself, in order
NeighboursToChallenge == SelectSeq(c_closest, LAMBDA peer : peer # SelfId)

\* C18: a storage challenge that passes both checks sends exactly one
\* GetChunkExistenceProof request to each of the closest peers taken other than the
\* node itself and none to itself, each with difficulty CLOSE_GROUP_SIZE and with one
\* of the node's own Chunk addresses as key.
C18_OneRequestPerNeighbour ==
    /\ (/\ c_caller = "storage_challenge"
        /\ c_pc = "done"
        /\ Len(c_closest) = CLOSE_GROUP_SIZE
        /\ Len(c_candidates) >= MinVerifyCandidates) =>
           /\ c_requests = [i \in DOMAIN NeighboursToChallenge |->
                               [peer |-> NeighboursToChallenge[i],
                                query |-> "GetChunkExistenceProof",
                                difficulty |-> CLOSE_GROUP_SIZE]]
           /\ \A i \in DOMAIN c_requests : c_requests[i].peer # SelfId
    /\ (c_caller = "storage_challenge" /\ c_pc \in {"request", "answers"}) =>
           /\ c_key \in LocalChunks
           /\ c_peer # SelfId

C18_Witness ==
    /\ c_caller = "storage_challenge"
    /\ c_pc = "done"
    /\ Len(c_requests) = CLOSE_GROUP_SIZE - 1
    /\ c_closest[2] = SelfId
    /\ DOMAIN p_store # LocalChunks

(***************************************************************************)
(* Properties of replication                                               *)
(***************************************************************************)
\* what triggers replication: the PeerAdded and PeerRemoved events dispatched and the
\* ticks of the replication ticker
ReplicationTriggers ==
    {<<"event", dispatched[i].seq>> :
        i \in Dispatched("PeerAdded") \cup Dispatched("PeerRemoved")}
        \cup {<<"tick", k>> : k \in 1..ticks}

\* the triggers whose task has not called try_interval_replication yet
PendingReplications ==
    {<<t.by, t.id>> : t \in {u \in tasks : u.kind = "try_interval_replication"}}

\* C19: every PeerAdded and every PeerRemoved event handled triggers exactly one call of
\* try_interval_replication, as does every tick of the replication ticker, also while
\* earlier replication tasks are still running.
C19_OneReplicationPerTrigger ==
    /\ [](/\ DOMAIN replications \cup PendingReplications = ReplicationTriggers
          /\ DOMAIN replications \cap PendingReplications = {}
          /\ \A tr \in DOMAIN replications : replications[tr] = 1)
    /\ \A n \in 1..MaxEvents :
           (<<"event", n>> \in ReplicationTriggers) ~> (<<"event", n>> \in DOMAIN replications)

C19_Witness ==
    /\ Dispatched("PeerAdded") # {}
    /\ Dispatched("PeerRemoved") # {}
    /\ ticks > 0
    /\ Cardinality(DOMAIN replications) = 1
    /\ Cardinality(PendingReplications) = 2

\* the peers of a list
Range(q) == {q[i] : i \in DOMAIN q}

\* the FailedToFetchHolders events dispatched whose task has run
HoldersTasksRun ==
    {i \in Dispatched("FailedToFetchHolders") :
        \A t \in tasks : ~(t.by = "event" /\ t.id = dispatched[i].seq)}

RECURSIVE Occurrences(_, _)
Occurrences(q, x) ==
    IF q = <<>> THEN 0
    ELSE (IF Head(q) = x THEN 1 ELSE 0) + Occurrences(Tail(q), x)

RECURSIVE TimesNamed(_, _)
TimesNamed(S, peer) ==
    IF S = {} THEN 0
    ELSE LET i == CHOOSE j \in S : TRUE
         IN Occurrences(dispatched[i].bad_nodes, peer) + TimesNamed(S \ {i}, peer)

\* C20: handling FailedToFetchHolders(bad_nodes) eventually records ReplicationFailure
\* against every peer of bad_nodes; no peer outside bad_nodes and no other kind of
\* issue is recorded.
C20_ReplicationFailurePerBadNode ==
    /\ [](/\ \A key \in DOMAIN node_issues :
                /\ key[2] = "ReplicationFailure"
                /\ node_issues[key] = TimesNamed(HoldersTasksRun, key[1])
          /\ \A i \in HoldersTasksRun : \A peer \in Range(dispatched[i].bad_nodes) :
                <<peer, "ReplicationFailure">> \in DOMAIN node_issues)
    /\ \A n \in 1..MaxEvents :
           (\E i \in Dispatched("FailedToFetchHolders") : dispatched[i].seq = n)
               ~> (\E i \in HoldersTasksRun : dispatched[i].seq = n)

C20_Witness ==
    /\ Cardinality(Dispatched("FailedToFetchHolders")) = 2
    /\ tasks = {}
    /\ DOMAIN node_issues = {<<p, "ReplicationFailure">> : p \in {1, 2, 3}}
    /\ node_issues[<<2, "ReplicationFailure">>] = 2

(***************************************************************************)
(* Properties of the peers_connected counter                               *)
(***************************************************************************)
\* C30: peers_connected starts at 0, every PeerAdded event handled adds exactly 1 to
\* it, and PeerRemoved, every other event and every tick leave it unchanged: it never
\* decreases.
C30_PeersConnectedMonotonic ==
    /\ peers_connected = 0
    /\ [](peers_connected = Cardinality(Dispatched("PeerAdded")))
    /\ [][/\ Handles("PeerAdded") => peers_connected' = peers_connected + 1
          /\ ~Handles("PeerAdded") => peers_connected' = peers_connected
          /\ peers_connected' >= peers_connected]_vars

C30_Witness ==
    /\ peers_connected = 1
    /\ Len(dispatched) = 2
    /\ dispatched[1].type = "PeerAdded"
    /\ dispatched[2].type = "PeerRemoved"
    /\ ticks > 0

(***************************************************************************)
(* C29: the dials of the NewListenAddr arm                                 *)
(***************************************************************************)
\* the NewListenAddr events handled so far, by arrival number
ListenEvents == {dispatched[i].seq : i \in Dispatched("NewListenAddr")}

\* the addresses of a sequence of dial calls, in the order of the calls
DialledAddrs(calls) == [i \in DOMAIN calls |-> calls[i][1]]

\* C29: when the build is not local, every NewListenAddr event handled leads to one
\* call of network.dial per configured initial peer, in the configured order, whether
\* or not earlier calls returned Err; dials are made for such events only, and in a
\* local build no dial is ever made.
C29_DialsEveryInitialPeer ==
    /\ [](\A n \in DOMAIN dial_log :
            /\ n \in ListenEvents
            /\ ~feature_local
            /\ DialledAddrs(dial_log[n]) = initial_peers
            /\ \A i \in DOMAIN dial_log[n] :
                  dial_log[n][i][2] = "Err" <=> initial_peers[i] \in unreachable)
    /\ [](feature_local => dial_log = <<>> /\ \A t \in tasks : t.kind # "dial")
    /\ \A n \in 1..MaxEvents :
          (n \in ListenEvents /\ ~feature_local) ~> (n \in DOMAIN dial_log)

\* a NewListenAddr event whose first dial failed and whose second dial was made
C29_Witness ==
    /\ ~feature_local
    /\ Len(initial_peers) = 2
    /\ initial_peers[1] \in unreachable
    /\ \E n \in DOMAIN dial_log :
          /\ Len(dial_log[n]) = 2
          /\ dial_log[n][1][2] = "Err"
          /\ dial_log[n][2][2] = "Ok"

\* a local build that has handled a NewListenAddr event
C29_WitnessLocal ==
    /\ feature_local
    /\ initial_peers # <<>>
    /\ ListenEvents # {}
    /\ tasks = {}

(***************************************************************************)
(* C25: a put that fails validation                                        *)
(***************************************************************************)
\* the step runs the task t to completion
Runs(t) == t \in tasks /\ tasks' = tasks \ {t}

RejectedMarker(record) == Marker("RecordRejected", <<record.key, record.verdict>>)

TimesRecorded(recorded, marker) ==
    IF marker \in DOMAIN recorded THEN recorded[marker] ELSE 0

\* C25: a step in which the task of an UnverifiedRecord event finds its record invalid
\* (for a failed payment or otherwise) stores nothing, records the RecordRejected
\* marker of the record once and no other marker, reports no NodeIssue, and sends,
\* broadcasts and replicates nothing.
C25_RejectedPutOnlyRecordsMetric ==
    [][\A t \in tasks :
         (Runs(t) /\ t.kind = "validate_and_store_record" /\ t.record.verdict \in PutErrors)
         => /\ stored' = stored
            /\ node_issues' = node_issues
            /\ TimesRecorded(metrics', RejectedMarker(t.record))
                 = TimesRecorded(metrics, RejectedMarker(t.record)) + 1
            /\ \A m \in DOMAIN metrics' \ {RejectedMarker(t.record)} :
                  m \in DOMAIN metrics /\ metrics'[m] = metrics[m]
            /\ UNCHANGED <<responses, events_channel, replications, dial_log,
                           peers_connected, loop_pc>>]_vars

\* a put rejected for its payment, after a replication failure that named a peer
C25_Witness ==
    /\ TimesRecorded(metrics, Marker("RecordRejected", <<0, "PaymentInvalid">>)) = 1
    /\ tasks = {}
    /\ Len(dispatched) = 2
    /\ dispatched[1].type = "FailedToFetchHolders"
    /\ dispatched[2].type = "UnverifiedRecord"
    /\ dispatched[2].record.verdict = "PaymentInvalid"
    /\ node_issues # <<>>
    /\ stored = {}

(***************************************************************************)
(* C21, C22: the tickers                                                   *)
(***************************************************************************)
Created(name) == tickers[name] # NoTicker

\* C21: the replication ticker is created with a period of 90..180 seconds, that is
\* of PERIODIC_REPLICATION_INTERVAL_MAX_S / 2 up to PERIODIC_REPLICATION_INTERVAL_MAX_S,
\* and the storage-challenge ticker with one of 3600..7200 seconds, that is of
\* STORE_CHALLENGE_INTERVAL_MAX_S / 2 up to STORE_CHALLENGE_INTERVAL_MAX_S; the period
\* of a ticker, once created, is the same in every later state of the run.
C21_IntervalsSampledOnceInRange ==
    /\ [](Created("replication") =>
            /\ tickers["replication"].period \in 90..180
            /\ tickers["replication"].period \in
                 (PERIODIC_REPLICATION_INTERVAL_MAX_S \div 2)..PERIODIC_REPLICATION_INTERVAL_MAX_S)
    /\ [](Created("challenge") =>
            /\ tickers["challenge"].period \in 3600..7200
            /\ tickers["challenge"].period \in
                 (STORE_CHALLENGE_INTERVAL_MAX_S \div 2)..STORE_CHALLENGE_INTERVAL_MAX_S)
    /\ [][\A name \in TickerSet :
            Created(name) => tickers'[name].period = tickers[name].period]_vars

\* with the longest replication period and the shortest storage-challenge period that
\* can be sampled, the replication ticker has fired in the loop
C21_Witness ==
    /\ t_pc = InLoop
    /\ tickers["replication"].period = PERIODIC_REPLICATION_INTERVAL_MAX_S - 1
    /\ tickers["challenge"].period = STORE_CHALLENGE_INTERVAL_MAX_S \div 2
    /\ tickers["replication"].fired = 1
    /\ now >= tickers["replication"].created + tickers["replication"].period

\* the tasks spawned by the arm of a ticker that have not run yet
TickTasks(name) == {t \in tasks : t.by = "tick" /\ t.kind = TickerKind(name)}

\* C22: before the loop no ticker arm is taken and no ticker-driven task exists; in the
\* loop the arm of a ticker has been taken n times only when n full periods of that
\* ticker have elapsed since it was created, so the first replication, cleanup or
\* storage challenge of a ticker starts no earlier than one period after its creation.
C22_FirstTickConsumedAtStartup ==
    /\ t_pc # InLoop =>
         /\ ticks = 0
         /\ \A t \in tasks : t.by # "tick"
         /\ \A trigger \in DOMAIN replications : trigger[1] # "tick"
    /\ \A name \in TickerSet :
         /\ tickers[name].fired * tickers[name].period
              <= now - tickers[name].created
         /\ TickTasks(name) # {} =>
              /\ tickers[name].fired >= 1
              /\ now >= tickers[name].created + tickers[name].period

\* the storage-challenge ticker, created after a delay, fires exactly one period later
C22_Witness ==
    /\ tickers["challenge"].created > 0
    /\ tickers["challenge"].fired = 1
    /\ now = tickers["challenge"].created + tickers["challenge"].period
    /\ TickTasks("challenge") # {}

(***************************************************************************)
(* C26, C27, C28: the responses of handle_query                            *)
(***************************************************************************)
Answered(variant) == q_response # NoResponse /\ q_response.variant = variant

\* C26: the response to GetStoreCost(address) carries the node's payment address and
\* the address of its own peer id, and its quote is Err(RecordExists(key of address))
\* when get_local_storecost returned a zero cost, Err(GetStoreCostFailed) when it
\* returned an error, and otherwise whatever create_quote_for_storecost returned when
\* called with the (non-zero) cost, the address and the payment address; the quote is
\* created in that third case only.
C26_StoreCostThreeOutcomes ==
    Answered("GetStoreCost") =>
        LET store_cost == q_calls[1].result
            record_key == <<"RecordKey", q_query.key.kind, q_query.key.a>>
        IN /\ q_calls[1].call = "get_local_storecost"
           /\ q_calls[1].args = record_key
           /\ q_response.payment_address = q_query.payment_address
           /\ q_response.peer_address = [kind |-> "PeerId", a |-> SelfId]
           /\ (store_cost[1] = "Err") =>
                 /\ q_response.quote = <<"Err", <<"GetStoreCostFailed", <<>>>>>>
                 /\ Len(q_calls) = 1
           /\ (store_cost[1] = "Ok" /\ store_cost[2][1] = 0) =>
                 /\ q_response.quote =
                      <<"Err", <<"RecordExists", <<"PrettyPrintRecordKey", record_key>>>>>>
                 /\ Len(q_calls) = 1
           /\ (store_cost[1] = "Ok" /\ store_cost[2][1] # 0) =>
                 /\ Len(q_calls) = 2
                 /\ q_calls[2].call = "create_quote_for_storecost"
                 /\ q_calls[2].args =
                      <<store_cost[2][1], q_query.key, q_query.payment_address>>
                 /\ q_response.quote = q_calls[2].result

\* a zero store cost answered with RecordExists
C26_Witness ==
    /\ Answered("GetStoreCost")
    /\ q_calls[1].result[1] = "Ok"
    /\ q_calls[1].result[2][1] = 0
    /\ q_response.quote[2][1] = "RecordExists"

\* a non-zero store cost for which the quote could not be created
C26_WitnessQuoteError ==
    /\ Answered("GetStoreCost")
    /\ Len(q_calls) = 2
    /\ q_response.quote[1] = "Err"
    /\ q_response.quote[2][1] = "QuoteGenerationFailed"

\* a failed lookup of the store cost
C26_WitnessFailed ==
    /\ Answered("GetStoreCost")
    /\ q_calls[1].result[1] = "Err"
    /\ q_response.quote[2][1] = "GetStoreCostFailed"

RecordQueries == {"GetRegisterRecord", "GetReplicatedRecord"}

\* the lookup of the local store the handler made returned a record
LookupReturnedRecord == q_calls # <<>> /\ q_calls[1].result = "some"

\* C27: the response to GetRegisterRecord{key} or GetReplicatedRecord{key} is
\* Ok((our address, the stored value)) exactly when the key has a record key and the
\* lookup of the local store returned a record; when the key has no record key (no
\* lookup is made then), the store holds no record or the lookup failed, it is
\* RegisterRecordNotFound resp. ReplicatedRecordNotFound with our address as holder
\* and the requested key.
C27_RecordQueryOkIffRecordFound ==
    (q_response # NoResponse /\ q_response.variant \in RecordQueries) =>
        LET key == q_query.key
            our_address == [kind |-> "PeerId", a |-> SelfId]
            convertible == key.kind # "PeerId"
            not_found == IF q_response.variant = "GetRegisterRecord"
                         THEN "RegisterRecordNotFound" ELSE "ReplicatedRecordNotFound"
        IN /\ q_response.result[1] = "Ok" <=> (convertible /\ LookupReturnedRecord)
           /\ LookupReturnedRecord => key.a \in DOMAIN p_store
           /\ ~convertible => q_calls = <<>>
           /\ q_response.result[1] = "Ok" =>
                 q_response.result[2] = <<our_address, <<"Bytes", p_store[key.a].value>>>>
           /\ q_response.result[1] # "Ok" =>
                 q_response.result =
                     <<"Err", <<not_found, [holder |-> our_address, key |-> key]>>>>

\* a GetRegisterRecord query answered with the value of a held record
C27_Witness ==
    /\ Answered("GetRegisterRecord")
    /\ LookupReturnedRecord
    /\ q_response.result = <<"Ok", <<[kind |-> "PeerId", a |-> SelfId],
                                     <<"Bytes", Content(q_query.key.a)>>>>>>

\* a GetReplicatedRecord query for a held record whose lookup failed
C27_WitnessStoreError ==
    /\ Answered("GetReplicatedRecord")
    /\ q_query.key.kind = "RecordKey"
    /\ q_query.key.a \in DOMAIN p_store
    /\ q_calls[1].result = "err"
    /\ q_response.result[2][1] = "ReplicatedRecordNotFound"

\* C28: the response to CheckNodeInProblem(addr) has addr as target_address and the
\* address of the node's own peer id as reporter_address; is_in_trouble is the value
\* is_peer_shunned(addr) returned, and FALSE when it returned an error.
C28_InTroubleIsShunnedStatus ==
    Answered("CheckNodeInProblem") =>
        /\ Len(q_calls) = 1
        /\ q_calls[1].call = "is_peer_shunned"
        /\ q_calls[1].args = q_query.key
        /\ q_response.target_address = q_query.key
        /\ q_response.reporter_address = [kind |-> "PeerId", a |-> SelfId]
        /\ q_calls[1].result[1] = "Ok" => q_response.is_in_trouble = q_calls[1].result[2]
        /\ q_calls[1].result[1] = "Err" => q_response.is_in_trouble = FALSE

\* a status lookup that failed, reported as not in trouble
C28_Witness ==
    /\ Answered("CheckNodeInProblem")
    /\ q_calls[1].result[1] = "Err"
    /\ q_response.is_in_trouble = FALSE

\* a shunned peer reported as in trouble
C28_WitnessShunned ==
    /\ Answered("CheckNodeInProblem")
    /\ q_calls[1].result = <<"Ok", TRUE>>
    /\ q_response.is_in_trouble = TRUE

(***************************************************************************)
(* C23, C24: the payment verifier                                          *)
(***************************************************************************)
\* the DataPayment logs of a receipt for the quote hash verified
LogsForQuote(receipt) ==
    {i \in DOMAIN receipt.logs : receipt.logs[i].quote_hash = pay_args.quote_hash}

\* the chain view of a verification shows a payment that satisfies pay_args
ValidPayment(v) ==
    /\ v.rpc = "up"
    /\ LogsForQuote(v.receipt) # {}
    /\ LET log == v.receipt.logs[Located(v.receipt, pay_args.quote_hash)]
       IN /\ log.reward_addr = pay_args.reward_addr
          /\ log.amount >= pay_args.amount
    /\ v.receipt.timestamp <= pay_args.quote_expiration_timestamp_in_secs

\* C23: a verification that reads the chain returns Ok exactly when the RPC answers and
\* the receipt has a DataPayment log for the quote hash, paid to the expected address,
\* of at least the expected amount, in a block whose timestamp is not greater than
\* the expiration; PaymentNotFound is returned only without such a log, WrongRecipient
\* only for another recipient, AmountMismatch only for a smaller amount, QuoteExpired
\* only for a later timestamp, and RpcUnavailable exactly on a transport error. An
\* amount of 1000 at timestamp 100 is Ok with expiration 200 and QuoteExpired with 50.
C23_OkOnlyForMatchingPayment ==
    /\ \A i \in DOMAIN pay_log :
          LET v == pay_log[i]
              at == Located(v.receipt, pay_args.quote_hash)
          IN /\ v.outcome \in {"Ok", "PaymentNotFound", "WrongRecipient", "AmountMismatch",
                                "QuoteExpired", "RpcUnavailable"}
             /\ ~v.hit => (v.outcome = "Ok" <=> ValidPayment(v))
             /\ ~v.hit => (v.outcome = "RpcUnavailable" <=> v.rpc = "down")
             /\ v.outcome = "PaymentNotFound" => LogsForQuote(v.receipt) = {}
             /\ v.outcome = "WrongRecipient" =>
                   at # 0 /\ v.receipt.logs[at].reward_addr # pay_args.reward_addr
             /\ v.outcome = "AmountMismatch" =>
                   at # 0 /\ v.receipt.logs[at].amount < pay_args.amount
             /\ v.outcome = "QuoteExpired" =>
                   v.receipt.timestamp > pay_args.quote_expiration_timestamp_in_secs
    /\ Network_verify_data_payment("up", Receipt(TRUE, 100, <<DataPayment("Q", "R", 1000)>>),
                                   "Q", "R", 1000, 200) = "Ok"
    /\ Network_verify_data_payment("up", Receipt(TRUE, 100, <<DataPayment("Q", "R", 1000)>>),
                                   "Q", "R", 1000, 50) = "QuoteExpired"

\* a payment in a block whose timestamp equals the expiration, verified Ok
C23_Witness ==
    /\ pay_args.quote_expiration_timestamp_in_secs = 100
    /\ \E i \in DOMAIN pay_log :
          /\ ~pay_log[i].hit
          /\ pay_log[i].receipt.timestamp = 100
          /\ pay_log[i].outcome = "Ok"

Failures == {"PaymentNotFound", "WrongRecipient", "AmountMismatch", "QuoteExpired",
             "RpcUnavailable"}

\* C24: a verification changes neither the chain nor the RPC endpoint; two
\* verifications between which the chain view has not changed return the same
\* outcome; no failure is ever returned from the memo or kept in it, so every
\* verification made while the RPC answers with a valid payment returns Ok, also after
\* one that failed with RpcUnavailable.
C24_IdempotentFailuresNotMemoized ==
    /\ [](\A i, j \in DOMAIN pay_log :
            pay_log[i].epoch = pay_log[j].epoch => pay_log[i].outcome = pay_log[j].outcome)
    /\ [](pay_memo \notin Failures)
    /\ [](\A i \in DOMAIN pay_log :
            /\ pay_log[i].hit => pay_log[i].outcome = "Ok"
            /\ ValidPayment(pay_log[i]) => pay_log[i].outcome = "Ok")
    /\ [][pay_log' # pay_log => UNCHANGED <<pay_rpc, pay_receipt, pay_epoch, pay_args>>]_vars

\* a verification that failed with RpcUnavailable, repeated with success once the RPC
\* answers
C24_Witness ==
    /\ Len(pay_log) = 2
    /\ pay_log[1].outcome = "RpcUnavailable"
    /\ pay_log[2].outcome = "Ok"
    /\ pay_log[2].rpc = "up"
    /\ pay_log[1].receipt = pay_log[2].receipt

\* the same verification made twice against an unchanged chain view, failing both times
C24_WitnessRepeatedFailure ==
    /\ Len(pay_log) = 2
    /\ pay_log[1].epoch = pay_log[2].epoch
    /\ pay_log[1].outcome = "QuoteExpired"
    /\ pay_log[2].outcome = "QuoteExpired"

(***************************************************************************)
(* C37: the challenges answered with no answer                             *)
(***************************************************************************)
\* the store holds a record of type Chunk
HoldsChunk == \E a \in DOMAIN p_store : p_store[a].rtype = "Chunk"

\* the enumeration of the local addresses was called and returned Err
EnumerationFailed ==
    \E i \in DOMAIN p_lookups :
        /\ p_lookups[i].call = "get_all_local_record_addresses"
        /\ p_lookups[i].outcome = "err"

\* C37: when the prover has returned, its results are empty if the difficulty was 0,
\* and if the difficulty was not 1 and the store holds no Chunk record or the
\* enumeration of the local addresses failed.
C37_NoAnswersWithoutWork ==
    p_pc = "done" =>
        /\ p_difficulty = 0 => p_results = <<>>
        /\ (p_difficulty # 1 /\ (~HoldsChunk \/ EnumerationFailed)) => p_results = <<>>

\* difficulty 0 answered with nothing by a prover that holds chunks and enumerated them
C37_Witness ==
    /\ p_pc = "done"
    /\ p_difficulty = 0
    /\ HoldsChunk
    /\ ~EnumerationFailed
    /\ p_results = <<>>

\* a failed enumeration answered with nothing by a prover that holds chunks
C37_WitnessEnumerationFailed ==
    /\ p_pc = "done"
    /\ p_difficulty > 1
    /\ HoldsChunk
    /\ EnumerationFailed
    /\ p_results = <<>>

(***************************************************************************)
(* C35, C36, C38: passing and failing a challenge                          *)
(***************************************************************************)
\* the answers of a reply whose proof is the one the verifier computes from its own
\* copy of the record
ProvenAnswers(reply, nonce) ==
    {i \in DOMAIN reply.answers :
        /\ reply.answers[i].addr \in DOMAIN p_store
        /\ reply.answers[i].proof = ExpectedProof(reply.answers[i], nonce)}

\* C35: whenever chunk_proof_verify_peer returns true (its caller records no issue),
\* the response held at least one answer for a record the verifier holds whose proof
\* equals the proof the verifier computes from its copy under the nonce of the
\* challenge.
C35_PassOnlyByProof ==
    [][(VerifyReturns /\ node_issues' = node_issues) =>
          ProvenAnswers(c_reply', c_nonce') # {}]_vars

\* the step in which send_and_get_responses sends a request
RequestSent == c_requests' # c_requests

AnswersDelivered ==
    /\ c_pc \in {"awaiting", "answers"}
    /\ c_pc' \in {"for", "done"}
    /\ c_reply'.kind = "answers"

\* C36 as stated: a peer that answers with the prover procedure, holds a Chunk record
\* and agrees with the verifier on every value has no FailedChunkProofCheck recorded
\* when its answers are delivered.
C36_HonestNeverPenalised ==
    [][(AnswersDelivered /\ HoldsChunk) => node_issues' = node_issues]_vars

\* C36, amended: such a peer has no FailedChunkProofCheck recorded when its answers
\* are delivered and it could read at least one of the chunks it answers for, so that
\* the answer list is not empty.
C36_HonestWithAnswerNeverPenalised ==
    [][(AnswersDelivered /\ HoldsChunk /\ c_reply'.answers # <<>>) =>
          node_issues' = node_issues]_vars

\* the peer answered for CLOSE_GROUP_SIZE chunks, the verifier compared every proof
\* with its own and recorded nothing
C36_Witness ==
    /\ c_caller = "ChunkProofVerification"
    /\ c_pc = "done"
    /\ c_reply.kind = "answers"
    /\ Len(c_reply.answers) = CLOSE_GROUP_SIZE
    /\ \A i \in DOMAIN c_checked : c_checked[i] = "some"
    /\ Len(c_checked) = CLOSE_GROUP_SIZE
    /\ p_nonce = c_nonce
    /\ DOMAIN node_issues = {}

(***************************************************************************)
(* Properties of failures and of fatal conditions                          *)
(***************************************************************************)
\* a dial returned Err, or a record was rejected
HandlerFailed ==
    \/ \E id \in DOMAIN dial_log : \E i \in DOMAIN dial_log[id] : dial_log[id][i][2] = "Err"
    \/ \E marker \in DOMAIN metrics : marker[1] = "RecordRejected"

C32_FatalExitsLoop ==
    /\ [][Handles("TerminateNode") =>
              /\ events_channel' =
                     Append(events_channel,
                            NodeEvent("TerminateNode",
                                      DebugFormat(dispatched'[Len(dispatched')].reason),
                                      dispatched'[Len(dispatched')].seq, 0))
              /\ loop_pc' = "exited"]_vars
    /\ [][(loop_pc = "running" /\ receiver = <<>> /\ ~senderOpen /\ loop_pc' # loop_pc) =>
              /\ events_channel' =
                     Append(events_channel, NodeEvent("ChannelClosed", <<>>, 0, 0))
              /\ loop_pc' = "exited"]_vars

Received == rx_next' # rx_next \/ rx_pc' # rx_pc \/ rx_lagged' # rx_lagged

\* the client has broadcast ConnectedToNetwork
Connected == \E i \in DOMAIN b_sent : b_sent[i] = "ConnectedToNetwork"

Returns(result) == r_result = "none" /\ r_result' = result

\* no node of the registry has the peer id of the call
NoSuchNode == \A i \in DOMAIN r_registry : r_registry[i].peer_id # Some(r_args.peer_id)

\* C39: a call with a peer id that no node of the registry has returns an error,
\* performs no operation on any service, and leaves the registry and its file as they
\* were.
C39_UnknownPeerTouchesNothing ==
    [][(NoSuchNode /\ r_result' # r_result) =>
          /\ r_result' = "Err"
          /\ r_ops' = <<>>
          /\ r_registry' = r_registry
          /\ r_saved' = r_saved]_vars

\* the call returned an error on a registry of running nodes, none with that peer id
C39_Witness ==
    /\ r_result = "Err"
    /\ r_ops = <<>>
    /\ Len(r_registry) = MaxNodes
    /\ \A i \in DOMAIN r_registry : r_registry[i].peer_id \notin {None, Some(r_args.peer_id)}
    /\ r_saved = r_registry

ServiceOps == {"stop", "uninstall", "install", "start"}

\* the positions in ops of the operations on services
ServiceOpsIn(ops) == {i \in DOMAIN ops : ops[i].op \in ServiceOps}

\* what an Ok return implies for the operations performed and the registry file
OkOrder ==
    /\ r_ops'[1].op = "stop"
    /\ \A i \in ServiceOpsIn(r_ops') : r_ops'[i].op # "stop" => i > 1
    /\ \A i \in ServiceOpsIn(r_ops') :
          (\A j \in ServiceOpsIn(r_ops') : j <= i) => r_ops'[i].op = "start"
    /\ r_ops'[Len(r_ops')].op = "save"
    /\ \A i \in DOMAIN r_ops' : r_ops'[i].ok
    /\ r_saved' = r_registry'

\* the entry pushed is numbered and named after the previous entry count plus one
PushedOne ==
    /\ Len(r_registry') = Len(r_registry) + 1
    /\ SubSeq(r_registry', 1, Len(r_registry)) = r_registry
    /\ r_registry'[Len(r_registry')].number = Len(r_registry) + 1
    /\ r_registry'[Len(r_registry')].service_name = ServiceName(Len(r_registry) + 1)

\* on an error nothing was saved
ErrUnsaved ==
    /\ r_saved' = r_saved
    /\ \A i \in DOMAIN r_ops' : ~(r_ops'[i].op = "save" /\ r_ops'[i].ok)

C40_WitnessSaveFailed ==
    /\ r_result = "Err"
    /\ r_ops # <<>>
    /\ r_ops[Len(r_ops)].op = "save"
    /\ r_saved # r_registry

=============================================================================
